---- MODULE Spec2Model ----
(***************************************************************************)
(* A model of the dispatch backend's record store and of the handlers      *)
(* that change a trip's assignment, status and invoicing fields            *)
(* (backend/api/views.py, backend/api/serializers.py,                      *)
(* backend/api/models.py).                                                 *)
(*                                                                         *)
(* A handler is an operator from the store before the request to the       *)
(* store after it and the response; an action applies one handler and      *)
(* records the request and the store it found in `last`.                   *)
(***************************************************************************)
EXTENDS Integers, FiniteSets, Sequences, TLC

VARIABLES trips, assignments, locations, drivers, now, last, reqs,
          price_plans, customer_price_plans, holidays

vars == <<trips, assignments, locations, drivers, now, last, reqs,
          price_plans, customer_price_plans, holidays>>

\* The PricePlan, CustomerPricePlan and Holiday tables.
price_tables == <<price_plans, customer_price_plans, holidays>>

(***************************************************************************)
(* Bounds of the model.                                                    *)
(***************************************************************************)
\* Trip rows the store may hold.
MaxTrips == 1
\* Driver rows of the initial store, with primary keys 1..MaxDrivers.
MaxDrivers == 2
\* timezone.now() ranges over 0..MaxClock.
MaxClock == 1

(***************************************************************************)
(* Values.                                                                 *)
(***************************************************************************)
\* Python's None: a null JSON value, a NULL column.
None == -1

\* A key the request does not carry.
Absent == -2

\* dict.get(key) and dict.pop(key, None) of a value the request may carry.
get(value) == IF value = Absent THEN None ELSE value

STATUS_CHOICES == {"unassigned", "assigned", "exception"}

\* The driver_id a request may carry: no key, null, 0, the primary keys of
\* the initial drivers, and a key no driver ever has.
DriverIdInputs == {Absent, None} \cup (0 .. (MaxDrivers + 1))

\* Authenticated users (request.user.id); every endpoint requires one.
Users == {1, 2}

Customers == {1, 2}

\* Trip dates, as <<year, month>>: the only part of a date a handler reads.
Dates == {<<2025, 1>>, <<2025, 2>>, <<2026, 1>>}

\* Location names as a request carries them.
RawNames == {"Sola", " Sola "}

\* str.strip() on the names above.
strip(name) == IF name = " Sola " THEN "Sola" ELSE name

\* Python truthiness of a driver_id (None and 0 are falsy).
Truthy(x) == x # None /\ x # 0

(***************************************************************************)
(* The store.                                                              *)
(***************************************************************************)
\* The store's tables a request transaction reads and writes.
Store(t, a, l) == [trips |-> t, assignments |-> a, locations |-> l]

DB == Store(trips, assignments, locations)

\* Trip.invoiced, Trip.invoiced_at, Trip.invoiced_by of a new row.
InvoiceDefaults == [invoiced |-> FALSE, invoiced_at |-> None, invoiced_by |-> None]

\* A Trip row as TripSerializer.create inserts it.
NewTrip(status, customer, date) ==
    [status |-> status, customer |-> customer, date |-> date,
     invoiced |-> InvoiceDefaults.invoiced,
     invoiced_at |-> InvoiceDefaults.invoiced_at,
     invoiced_by |-> InvoiceDefaults.invoiced_by]

\* The primary key the store gives the next Trip row.
NextTripId(t) == Cardinality(DOMAIN t) + 1

\* The Assignment rows of a trip.
AssignmentsOf(a, trip) == {x \in a : x.trip = trip}

\* A lookup that forgets active=True.
DriverExists(driver_id) == driver_id \in DOMAIN drivers

\* Driver.objects.get(pk=driver_id, active=True) finds a row.
DriverEligible(driver_id) ==
    driver_id \in DOMAIN drivers /\ drivers[driver_id].active

\* What a handler returns: whether the request succeeded, the store it
\* leaves, and whether it saved the trip row's status.
Response(ok, db, saved) == [ok |-> ok, db |-> db, saved |-> saved]

\* No transaction: what was written before the exception stays.
NotRolledBack(before, partial) == partial

\* @transaction.atomic: an exception leaves the store as the request found it.
RolledBack(before, partial) == before

\* Assignment.objects.create: a row is added whether or not the trip has one.
always_create(a, trip, driver) == a \cup {[trip |-> trip, driver |-> driver]}

\* Assignment.objects.update_or_create(trip=trip, defaults={"driver": driver}).
update_or_create(a, trip, driver) ==
    IF AssignmentsOf(a, trip) # {}
    THEN {IF x.trip = trip THEN [x EXCEPT !.driver = driver] ELSE x : x \in a}
    ELSE a \cup {[trip |-> trip, driver |-> driver]}

\* Assignment.objects.filter(trip=trip).delete().
filter_delete(a, trip) == a \ AssignmentsOf(a, trip)

\* self._ensure_location(name) for each name: Location.objects.get_or_create.
ensure_locations(l, names) == l \cup {strip(n) : n \in names}

\* ModelSerializer.update: every attribute of validated is set on the
\* instance that was read, and the whole row is saved.
super_update(instance, attrs) ==
    [k \in DOMAIN instance |-> IF k \in DOMAIN attrs THEN attrs[k] ELSE instance[k]]

\* TripSerializer.create(validated).  `names` are the *_name values whose
\* *_location is not given.
TripSerializer_create(db, driver_id_in, names, customer, date) ==
    LET driver_id == get(driver_id_in)
        id == NextTripId(db.trips)
        status == IF Truthy(driver_id) THEN "assigned" ELSE "unassigned"
        inserted == Store(db.trips @@ (id :> NewTrip(status, customer, date)),
                          db.assignments,
                          ensure_locations(db.locations, names))
    IN  IF ~Truthy(driver_id)
        THEN Response(TRUE, inserted, TRUE)
        ELSE IF ~DriverEligible(driver_id)
        THEN Response(FALSE, RolledBack(db, inserted), FALSE)
        ELSE Response(TRUE,
                      [inserted EXCEPT !.assignments = update_or_create(@, id, driver_id)],
                      TRUE)

\* An assign that never touches the status.
assign_status_kept(status) == status

\* The status assign_driver and TripSerializer.update leave after recording
\* an Assignment, from the status of the instance they hold.
assign_status(status) == IF status = "unassigned" THEN "assigned" ELSE status

\* The status unassign_driver leaves, from the status of the instance it holds.
unassign_status(status) == IF status # "unassigned" THEN "unassigned" ELSE status

\* trip.save(update_fields=["status"]) when the handler changed trip.status.
save_status(t, trip, old, new) ==
    IF new # old THEN [t EXCEPT ![trip].status = new] ELSE t

\* TripSerializer.update(instance, validated).  `instance` is the row as the
\* view read it.  The field is an IntegerField: validated holds an integer
\* or None for it, never "".
TripSerializer_update(db, trip, instance, driver_id_in, names, attrs) ==
    LET driver_id == get(driver_id_in)
        row == super_update(instance, attrs)
        written == Store([db.trips EXCEPT ![trip] = row],
                         db.assignments,
                         ensure_locations(db.locations, names))
    IN  IF driver_id # None
        THEN IF driver_id = None
             THEN Response(TRUE,
                           Store(save_status(written.trips, trip, row.status,
                                             unassign_status(row.status)),
                                 filter_delete(written.assignments, trip),
                                 written.locations),
                           unassign_status(row.status) # row.status)
             ELSE IF ~DriverEligible(driver_id)
             THEN Response(FALSE, RolledBack(db, written), FALSE)
             ELSE Response(TRUE,
                           Store(save_status(written.trips, trip, row.status,
                                             assign_status(row.status)),
                                 update_or_create(written.assignments, trip, driver_id),
                                 written.locations),
                           assign_status(row.status) # row.status)
        ELSE Response(TRUE, written, FALSE)

\* TripViewSet.assign_driver.  `status` is trip.status of the row get_object read.
assign_driver(db, trip, status, driver_id_in) ==
    LET driver_id == get(driver_id_in)
    IN  IF ~Truthy(driver_id)
        THEN Response(FALSE, db, FALSE)
        ELSE IF ~DriverEligible(driver_id)
        THEN Response(FALSE, RolledBack(db, db), FALSE)
        ELSE Response(TRUE,
                      Store(save_status(db.trips, trip, status, assign_status(status)),
                            update_or_create(db.assignments, trip, driver_id),
                            db.locations),
                      assign_status(status) # status)

\* TripViewSet.unassign_driver.  `status` is trip.status of the row get_object read.
unassign_driver(db, trip, status) ==
    Response(TRUE,
             Store(save_status(db.trips, trip, status, unassign_status(status)),
                   filter_delete(db.assignments, trip),
                   db.locations),
             unassign_status(status) # status)

(***************************************************************************)
(* Requests in sequence: each action is one whole request.                 *)
(***************************************************************************)
\* The two requests of the concurrent specification, neither begun.  A
\* request holds the trip it names, its driver_id, the status of the row
\* it read, and how it ended.
NoReqs == [r \in {"assign", "unassign"} |->
              [pc |-> "idle", trip |-> 0, driver_id |-> None, status |-> "", ok |-> FALSE]]

\* The Driver rows of the initial store: all active but the last.
InitialDrivers == [d \in 1 .. MaxDrivers |-> [active |-> d < MaxDrivers]]

\* No price plan, no customer linked to one, no holiday.
NoPricePlans ==
    /\ price_plans = <<>>
    /\ customer_price_plans = <<>>
    /\ holidays = {}

Init ==
    /\ trips = <<>>
    /\ NoPricePlans
    /\ assignments = {}
    /\ locations = {}
    /\ drivers = InitialDrivers
    /\ now = 0
    /\ reqs = NoReqs
    /\ last = [op |-> "init", ok |-> TRUE, saved |-> FALSE, trip |-> 0,
               driver_id |-> None,
               names |-> {}, pre_status |-> "", pre_drivers |-> {},
               pre_ntrips |-> 0, pre_locations |-> {}]

StatusOf(trip) == IF trip \in DOMAIN trips THEN trips[trip].status ELSE ""

\* The drivers the trip's Assignment rows name.
DriversOf(a, trip) == {x.driver : x \in AssignmentsOf(a, trip)}

\* The request just served and what it found in the store.
Served(op, ok, saved, trip, driver_id, names) ==
    last' = [op |-> op, ok |-> ok, saved |-> saved, trip |-> trip,
             driver_id |-> driver_id, names |-> names,
             pre_status |-> StatusOf(trip),
             pre_drivers |-> DriversOf(assignments, trip),
             pre_ntrips |-> Cardinality(DOMAIN trips),
             pre_locations |-> locations]

\* The store a handler left becomes the store.
Commit(db) ==
    /\ trips' = db.trips
    /\ assignments' = db.assignments
    /\ locations' = db.locations

\* validated without any model attribute.
NoAttrs == <<>>

\* The attributes an update request may change.
UpdateAttrs == {NoAttrs}

\* POST /trips/
Create(driver_id, names, customer, date) ==
    /\ NextTripId(trips) <= MaxTrips
    /\ LET r == TripSerializer_create(DB, driver_id, names, customer, date)
       IN  /\ Commit(r.db)
           /\ Served("create", r.ok, r.saved, NextTripId(trips), driver_id, names)
    /\ UNCHANGED <<drivers, now, reqs, price_tables>>

\* PUT/PATCH /trips/<trip>/
Update(trip, driver_id, names, attrs) ==
    /\ trip \in DOMAIN trips
    /\ LET r == TripSerializer_update(DB, trip, trips[trip], driver_id, names, attrs)
       IN  /\ Commit(r.db)
           /\ Served("update", r.ok, r.saved, trip, driver_id, names)
    /\ UNCHANGED <<drivers, now, reqs, price_tables>>

\* POST /trips/<trip>/assign_driver/
AssignDriver(trip, driver_id) ==
    /\ trip \in DOMAIN trips
    /\ LET r == assign_driver(DB, trip, trips[trip].status, driver_id)
       IN  /\ Commit(r.db)
           /\ Served("assign_driver", r.ok, r.saved, trip, driver_id, {})
    /\ UNCHANGED <<drivers, now, reqs, price_tables>>

\* POST /trips/<trip>/unassign_driver/
UnassignDriver(trip) ==
    /\ trip \in DOMAIN trips
    /\ LET r == unassign_driver(DB, trip, trips[trip].status)
       IN  /\ Commit(r.db)
           /\ Served("unassign_driver", r.ok, r.saved, trip, None, {})
    /\ UNCHANGED <<drivers, now, reqs, price_tables>>

\* The admin's trip form, saving status = "exception".
AdminSetException(trip) ==
    /\ trip \in DOMAIN trips
    /\ trips' = [trips EXCEPT ![trip].status = "exception"]
    /\ Served("admin_exception", TRUE, TRUE, trip, None, {})
    /\ UNCHANGED <<assignments, locations, drivers, now, reqs, price_tables>>

\* POST /assignments/: the trip's one-to-one key admits one row a trip, and
\* the driver is any existing Driver.
AssignmentCreate(trip, driver) ==
    /\ trip \in DOMAIN trips
    /\ driver \in DOMAIN drivers
    /\ LET ok == AssignmentsOf(assignments, trip) = {}
       IN  /\ assignments' = IF ok THEN assignments \cup {[trip |-> trip, driver |-> driver]}
                                   ELSE assignments
           /\ Served("assignment_create", ok, FALSE, trip, driver, {})
    /\ UNCHANGED <<trips, locations, drivers, now, reqs, price_tables>>

\* PUT/PATCH /assignments/<id>/ of the trip's Assignment, naming another driver.
AssignmentUpdate(trip, driver) ==
    /\ AssignmentsOf(assignments, trip) # {}
    /\ driver \in DOMAIN drivers
    /\ assignments' = {IF x.trip = trip THEN [x EXCEPT !.driver = driver] ELSE x :
                          x \in assignments}
    /\ Served("assignment_update", TRUE, FALSE, trip, driver, {})
    /\ UNCHANGED <<trips, locations, drivers, now, reqs, price_tables>>

\* DELETE /assignments/<id>/ of the trip's Assignment.
AssignmentDelete(trip) ==
    /\ AssignmentsOf(assignments, trip) # {}
    /\ assignments' = assignments \ AssignmentsOf(assignments, trip)
    /\ Served("assignment_delete", TRUE, FALSE, trip, None, {})
    /\ UNCHANGED <<trips, locations, drivers, now, reqs, price_tables>>

\* DELETE /drivers/<driver>/: Assignment.driver is on_delete=CASCADE.
DriverDelete(driver) ==
    /\ driver \in DOMAIN drivers
    /\ drivers' = [d \in DOMAIN drivers \ {driver} |-> drivers[d]]
    /\ assignments' = {x \in assignments : x.driver # driver}
    /\ Served("driver_delete", TRUE, FALSE, 0, driver, {})
    /\ UNCHANGED <<trips, locations, now, reqs, price_tables>>

\* The *_name values of one request: none, or one name.
NameInputs == {{}} \cup {{n} : n \in RawNames}

\* The customers and dates trips are created with where neither plays a part.
CreateCustomers == {1}
CreateDates == {<<2025, 1>>}

\* Every operation of the API on trips, assignments and drivers.
Next ==
    \/ \E d \in DriverIdInputs, ns \in NameInputs, c \in CreateCustomers,
          dt \in CreateDates : Create(d, ns, c, dt)
    \/ \E t \in 1 .. MaxTrips, d \in DriverIdInputs, ns \in NameInputs,
          at \in UpdateAttrs : Update(t, d, ns, at)
    \/ \E t \in 1 .. MaxTrips, d \in DriverIdInputs : AssignDriver(t, d)
    \/ \E t \in 1 .. MaxTrips : UnassignDriver(t)
    \/ \E t \in 1 .. MaxTrips : AdminSetException(t)
    \/ \E t \in 1 .. MaxTrips, d \in 1 .. MaxDrivers : AssignmentCreate(t, d)
    \/ \E t \in 1 .. MaxTrips, d \in 1 .. MaxDrivers : AssignmentUpdate(t, d)
    \/ \E t \in 1 .. MaxTrips : AssignmentDelete(t)
    \/ \E d \in 1 .. MaxDrivers : DriverDelete(d)

Spec == Init /\ [][Next]_vars

\* The assign and unassign operations on freshly created trips (the trip
\* endpoints), with the admin setting a status to 'exception'.
NextAssign ==
    \/ \E d \in DriverIdInputs, ns \in NameInputs, c \in CreateCustomers,
          dt \in CreateDates : Create(d, ns, c, dt)
    \/ \E t \in 1 .. MaxTrips, d \in DriverIdInputs, ns \in NameInputs,
          at \in UpdateAttrs : Update(t, d, ns, at)
    \/ \E t \in 1 .. MaxTrips, d \in DriverIdInputs : AssignDriver(t, d)
    \/ \E t \in 1 .. MaxTrips : UnassignDriver(t)
    \/ \E t \in 1 .. MaxTrips : AdminSetException(t)

SpecAssign == Init /\ [][NextAssign]_vars

(***************************************************************************)
(* One assign_driver and one unassign_driver request running concurrently. *)
(* Each request is a transaction: it reads the trip row (get_object), and  *)
(* at its commit its writes (the Assignment, then the status chosen from   *)
(* the status it read) become visible together.  The handlers take no row  *)
(* lock (no select_for_update) and do not read the row again.              *)
(***************************************************************************)
\* assign_driver: trip = self.get_object(); driver_id = request.data.get(..).
BeginAssign(trip, driver_id) ==
    /\ reqs["assign"].pc = "idle"
    /\ trip \in DOMAIN trips
    /\ reqs' = [reqs EXCEPT !["assign"] =
                    [pc |-> "read", trip |-> trip, driver_id |-> driver_id,
                     status |-> trips[trip].status, ok |-> FALSE]]
    /\ UNCHANGED <<trips, assignments, locations, drivers, now, last, price_tables>>

\* assign_driver: the rest of the handler, and the commit.
CommitAssign ==
    /\ reqs["assign"].pc = "read"
    /\ LET q == reqs["assign"]
           r == assign_driver(DB, q.trip, q.status, q.driver_id)
       IN  /\ Commit(r.db)
           /\ reqs' = [reqs EXCEPT !["assign"].pc = "done", !["assign"].ok = r.ok]
    /\ UNCHANGED <<drivers, now, last, price_tables>>

\* unassign_driver: trip = self.get_object().
BeginUnassign(trip) ==
    /\ reqs["unassign"].pc = "idle"
    /\ trip \in DOMAIN trips
    /\ reqs' = [reqs EXCEPT !["unassign"] =
                    [pc |-> "read", trip |-> trip, driver_id |-> None,
                     status |-> trips[trip].status, ok |-> FALSE]]
    /\ UNCHANGED <<trips, assignments, locations, drivers, now, last, price_tables>>

\* unassign_driver: the rest of the handler, and the commit.
CommitUnassign ==
    /\ reqs["unassign"].pc = "read"
    /\ LET q == reqs["unassign"]
           r == unassign_driver(DB, q.trip, q.status)
       IN  /\ Commit(r.db)
           /\ reqs' = [reqs EXCEPT !["unassign"].pc = "done", !["unassign"].ok = r.ok]
    /\ UNCHANGED <<drivers, now, last, price_tables>>

\* A trip is created, then one assign_driver and one unassign_driver
\* request run, their steps interleaved in any order.
NextConc ==
    \/ \E d \in DriverIdInputs, ns \in NameInputs, c \in CreateCustomers,
          dt \in CreateDates : Create(d, ns, c, dt)
    \/ \E t \in 1 .. MaxTrips, d \in DriverIdInputs : BeginAssign(t, d)
    \/ CommitAssign
    \/ \E t \in 1 .. MaxTrips : BeginUnassign(t)
    \/ CommitUnassign

SpecConc == Init /\ [][NextConc]_vars

(***************************************************************************)
(* Invoicing: set_invoiced and bulk_invoice.                               *)
(***************************************************************************)
\* A value of the request's JSON body: its JSON type and its text.
JSON(type, text) == [type |-> type, text |-> text]

JAbsent == JSON("absent", "")
JNull == JSON("null", "")
JTrue == JSON("bool", "true")
JFalse == JSON("bool", "false")

\* request.data.get(key, default).
data_get(value, default) == IF value = JAbsent THEN default ELSE value

\* The 'invoiced' values a request may carry.
InvoicedInputs == {JAbsent, JNull, JTrue, JFalse, JSON("str", "YES")}

\* str.lower() on the string above.
lower(text) == IF text = "YES" THEN "yes" ELSE text

\* inv = invoiced; if isinstance(inv, str): inv = inv.lower() in (...); then
\* the truth value `if inv:` tests.
parse_inv(invoiced) ==
    IF invoiced.type = "str"
    THEN lower(invoiced.text) \in {"true", "1", "yes", "y", "on"}
    ELSE invoiced = JTrue

\* The 'month' values a request may carry.
MonthInputs == {"", "2025-01", "2026-1", "2025"}

\* y_s, m_s = str(month_).split("-", 1); int(y_s), int(m_s): <<year, month>>,
\* or <<>> where the split or a conversion raises.
parse_month(month_) ==
    CASE month_ = "2025-01" -> <<2025, 1>>
      [] month_ = "2026-1" -> <<2026, 1>>
      [] OTHER -> <<>>

\* The 'customer' values a request may carry.
CustomerInputs == {Absent} \cup Customers

\* A set_invoiced(false) that resets the flag alone.
clear_flag_only(inv, user, time) ==
    IF inv
    THEN [invoiced |-> TRUE, invoiced_at |-> time, invoiced_by |-> user]
    ELSE [invoiced |-> FALSE]

\* The three columns both handlers write, for a truthy and a falsy inv.
invoice_fields(inv, user, time) ==
    IF inv
    THEN [invoiced |-> TRUE, invoiced_at |-> time, invoiced_by |-> user]
    ELSE [invoiced |-> FALSE, invoiced_at |-> None, invoiced_by |-> None]

\* POST /trips/<trip>/set_invoiced/ by `user` at time `time`.
set_invoiced(db, trip, invoiced_in, user, time) ==
    LET invoiced == data_get(invoiced_in, JNull)
    IN  IF invoiced = JNull
        THEN Response(FALSE, db, FALSE)
        ELSE LET inv == parse_inv(invoiced)
                 row == super_update(db.trips[trip], invoice_fields(inv, user, time))
             IN  Response(TRUE, [db EXCEPT !.trips[trip] = row], TRUE)

\* A queryset that forgets filter(customer_id=customer_id).
bulk_qs_any_customer(t, customer_id, ym) ==
    {i \in DOMAIN t : t[i].date = ym}

\* qs: the trips of the customer dated in the month.
bulk_qs(t, customer_id, ym) ==
    {i \in DOMAIN t : t[i].customer = customer_id /\ t[i].date = ym}

\* An update of every row of qs, whatever its flag.
bulk_rows_unfiltered(t, qs, inv) == qs

\* qs.filter(invoiced=False) for a truthy inv, qs.filter(invoiced=True) for
\* a falsy one: the rows .update() writes and counts.
bulk_rows(t, qs, inv) == {i \in qs : t[i].invoiced = ~inv}

\* POST /trips/bulk_invoice/ by `user` at time `time`: the response and the
\* number of rows updated.
bulk_invoice(db, customer_in, month_, invoiced_in, user, time) ==
    LET customer_id == get(customer_in)
        invoiced == data_get(invoiced_in, JTrue)
        inv == parse_inv(invoiced)
        ym == parse_month(month_)
        qs == bulk_qs(db.trips, customer_id, ym)
        rows == bulk_rows(db.trips, qs, inv)
        updated == [i \in DOMAIN db.trips |->
                       IF i \in rows
                       THEN super_update(db.trips[i], invoice_fields(inv, user, time))
                       ELSE db.trips[i]]
    IN  IF ~Truthy(customer_id) \/ month_ = ""
        THEN [ok |-> FALSE, db |-> db, updated |-> 0]
        ELSE IF ym = <<>>
        THEN [ok |-> FALSE, db |-> db, updated |-> 0]
        ELSE [ok |-> TRUE, db |-> [db EXCEPT !.trips = updated],
              updated |-> Cardinality(rows)]

\* The <<customer, date>> of the trips the invoicing requests find: one
\* trip, and a second of the same customer and month or differing in
\* customer, in month or in year.
InvoiceTrips ==
    {<<<<1, <<2025, 1>>>>, other>> :
        other \in {<<1, <<2025, 1>>>>, <<2, <<2025, 1>>>>,
                   <<1, <<2025, 2>>>>, <<1, <<2026, 1>>>>}}

\* The primary keys of those trips.
InvoiceTripIds == UNION {DOMAIN f : f \in InvoiceTrips}

\* Trips as TripSerializer.create left them, none invoiced yet.
InitInvoice ==
    /\ \E f \in InvoiceTrips :
          trips = [i \in DOMAIN f |-> NewTrip("unassigned", f[i][1], f[i][2])]
    /\ assignments = {}
    /\ locations = {}
    /\ drivers = InitialDrivers
    /\ NoPricePlans
    /\ now = 0
    /\ reqs = NoReqs
    /\ last = [op |-> "init", ok |-> TRUE, trip |-> 0, invoiced |-> JAbsent,
               customer |-> Absent, month |-> "", again |-> FALSE,
               user |-> None, time |-> 0, updated |-> 0,
               pre_at |-> None, pre_by |-> None]

\* The invoicing request just served: its input, whether it repeats the
\* request served before it, the acting user, the time of timezone.now(),
\* and the stamp the trip carried before.
ServedInvoice(op, ok, trip, customer_in, month_, invoiced_in, user, updated) ==
    last' = [op |-> op, ok |-> ok, trip |-> trip, invoiced |-> invoiced_in,
             customer |-> customer_in, month |-> month_,
             again |-> /\ last.op = op /\ last.trip = trip
                       /\ last.customer = customer_in /\ last.month = month_
                       /\ last.invoiced = invoiced_in,
             user |-> user, time |-> now, updated |-> updated,
             pre_at |-> IF trip \in DOMAIN trips THEN trips[trip].invoiced_at ELSE None,
             pre_by |-> IF trip \in DOMAIN trips THEN trips[trip].invoiced_by ELSE None]

\* POST /trips/<trip>/set_invoiced/
SetInvoiced(trip, invoiced_in, user) ==
    /\ trip \in DOMAIN trips
    /\ LET r == set_invoiced(DB, trip, invoiced_in, user, now)
       IN  /\ Commit(r.db)
           /\ ServedInvoice("set_invoiced", r.ok, trip, Absent, "", invoiced_in, user, 0)
    /\ UNCHANGED <<drivers, now, reqs, price_tables>>

\* POST /trips/bulk_invoice/
BulkInvoice(customer_in, month_, invoiced_in, user) ==
    /\ LET r == bulk_invoice(DB, customer_in, month_, invoiced_in, user, now)
       IN  /\ Commit(r.db)
           /\ ServedInvoice("bulk_invoice", r.ok, 0, customer_in, month_, invoiced_in,
                            user, r.updated)
    /\ UNCHANGED <<drivers, now, reqs, price_tables>>

\* Time passes between requests.
Tick ==
    /\ now < MaxClock
    /\ now' = now + 1
    /\ UNCHANGED <<trips, assignments, locations, drivers, reqs, last, price_tables>>

\* The bulk_invoice bodies requests carry: every well-formed customer and
\* month with every 'invoiced' value, and one body for each way of being
\* rejected (no customer, no month, a month that does not parse).
BulkRequests ==
    {[customer |-> c, month |-> m, invoiced |-> v] :
        c \in CustomerInputs \ {Absent},
        m \in {x \in MonthInputs : parse_month(x) # <<>>},
        v \in InvoicedInputs}
    \cup {[customer |-> c, month |-> "2025-01", invoiced |-> JTrue] :
             c \in CustomerInputs \ Customers}
    \cup {[customer |-> 1, month |-> m, invoiced |-> JTrue] :
             m \in {x \in MonthInputs : parse_month(x) = <<>>}}

NextInvoice ==
    \/ \E t \in InvoiceTripIds, v \in InvoicedInputs, u \in Users : SetInvoiced(t, v, u)
    \/ \E q \in BulkRequests, u \in Users :
          BulkInvoice(q.customer, q.month, q.invoiced, u)
    \/ Tick

SpecInvoice == InitInvoice /\ [][NextInvoice]_vars

(***************************************************************************)
(* Pricing: pricing_for_trip, and the price of a trip create request.      *)
(***************************************************************************)
\* A datetime.time, as minutes after midnight.
Time(h, m) == h * 60 + m

\* night_start and night_end of a plan (TimeField, null=True).
NightStarts == {None, Time(0, 0), Time(22, 0)}
NightEnds == {None, Time(0, 0), Time(6, 0)}

\* start_time of a trip.
StartTimes == {Time(0, 0), Time(6, 0), Time(12, 0), Time(23, 0)}

\* Trip dates, as <<year, month, day>>, and the one in the Holiday table.
PriceDates == {<<2025, 12, 24>>, <<2025, 12, 25>>}
HolidayDates == {<<2025, 12, 25>>}

\* pax of a request: no key, 0, and values around base_pax_included.
PaxInputs == {Absent, 0, 5, 7, 9}

\* A null location reference, and a *_name the data does not carry (or
\* carries empty): both falsy.
NoLocation == ""
NoName == ""

\* A stop of a request: none, by location reference, or by name.
StopInputs ==
    {[location |-> NoLocation, name |-> NoName],
     [location |-> "Sola", name |-> NoName],
     [location |-> NoLocation, name |-> " Sola "]}

\* price of a create request: no key, null, or an amount.
PriceInputs == {Absent, None, 500, 0}

\* The values pricing_for_trip starts from.
DefaultPlan ==
    [base_price |-> 900, base_pax_included |-> 7, extra_pax_price |-> 0,
     night_surcharge |-> 0, night_start |-> None, night_end |-> None,
     holiday_surcharge |-> 0, stop1_surcharge |-> 0, stop2_surcharge |-> 0]

\* A PricePlan row.
PricePlan(base_price, night_start, night_end, active) ==
    [base_price |-> base_price, base_pax_included |-> 7,
     extra_pax_price |-> 100,
     night_surcharge |-> 200, night_start |-> night_start, night_end |-> night_end,
     holiday_surcharge |-> 300, stop1_surcharge |-> 50, stop2_surcharge |-> 90,
     active |-> active]

\* The PricePlan rows the store may hold: IntegerField takes any integer.
PricePlans ==
    {PricePlan(b, s, e, a) :
        b \in {900, -100}, s \in NightStarts, e \in NightEnds, a \in BOOLEAN}

\* The data pricing_for_trip reads.
TripData(customer, pax, start_time, date, stop1, stop2) ==
    [customer |-> customer, pax |-> pax, start_time |-> start_time, date |-> date,
     stop1_location |-> stop1.location, stop1_name |-> stop1.name,
     stop2_location |-> stop2.location, stop2_name |-> stop2.name]

\* A plan lookup that forgets link.price_plan.active.
resolve_plan_any(customer, plans, links) ==
    IF customer # None /\ customer \in DOMAIN links
    THEN plans[links[customer]]
    ELSE DefaultPlan

\* The plan whose values pricing_for_trip uses: the customer's linked plan
\* if it is active, else the defaults.
resolve_plan(customer, plans, links) ==
    IF customer # None /\ customer \in DOMAIN links /\ plans[links[customer]].active
    THEN plans[links[customer]]
    ELSE DefaultPlan

\* An extra-pax term that starts at the included pax.
extra_pax_from_included(pax_in, pp) ==
    LET pax == IF Truthy(get(pax_in)) THEN pax_in ELSE 1
    IN  IF pax >= pp.base_pax_included
        THEN (pax - pp.base_pax_included + 1) * pp.extra_pax_price
        ELSE 0

\* pax = int(data.get("pax") or 1) and the extra-pax term.
extra_pax(pax_in, pp) ==
    LET pax == IF Truthy(get(pax_in)) THEN pax_in ELSE 1
    IN  IF pax > pp.base_pax_included
        THEN (pax - pp.base_pax_included) * pp.extra_pax_price
        ELSE 0

\* A window test that never wraps midnight.
in_night_window_no_wrap(t, start, end) ==
    IF start = None \/ end = None
    THEN FALSE
    ELSE start <= t /\ t <= end

\* in_night_window(t, start, end); a datetime.time is truthy, None is not.
in_night_window(t, start, end) ==
    IF start = None \/ end = None
    THEN FALSE
    ELSE IF start <= end
    THEN start <= t /\ t <= end
    ELSE t >= start \/ t <= end

\* The number of stops pricing_for_trip counts.
stops_of(data) ==
    (IF data.stop1_location # NoLocation \/ data.stop1_name # NoName THEN 1 ELSE 0)
    + (IF data.stop2_location # NoLocation \/ data.stop2_name # NoName THEN 1 ELSE 0)

\* A stop term that adds stop1_surcharge for the first stop and
\* stop2_surcharge for the second.
stop_surcharge_each(stops, pp) ==
    (IF stops >= 1 THEN pp.stop1_surcharge ELSE 0)
    + (IF stops >= 2 THEN pp.stop2_surcharge ELSE 0)

\* if stops == 1: stop1_surcharge; elif stops >= 2: stop2_surcharge.
stop_surcharge(stops, pp) ==
    IF stops = 1 THEN pp.stop1_surcharge
    ELSE IF stops >= 2 THEN pp.stop2_surcharge
    ELSE 0

\* pricing_for_trip(data) against the PricePlan, CustomerPricePlan and
\* Holiday tables.
pricing_for_trip(data, plans, links, hols) ==
    LET pp == resolve_plan(data.customer, plans, links)
    IN  pp.base_price
        + extra_pax(data.pax, pp)
        + (IF in_night_window(data.start_time, pp.night_start, pp.night_end)
           THEN pp.night_surcharge ELSE 0)
        + (IF data.date \in hols THEN pp.holiday_surcharge ELSE 0)
        + stop_surcharge(stops_of(data), pp)

\* TripSerializer.validate(attrs) of a create request: the field the
\* ValidationError names, or "" when attrs pass.
validate(customer, price_in, links) ==
    LET price == get(price_in)
    IN  IF customer = None THEN "price"
        ELSE IF customer \notin DOMAIN links /\ price = None THEN "price"
        ELSE ""

\* TripSerializer.create: a stop given by name alone becomes a location,
\* and the *_name keys leave validated.
names_to_locations(data) ==
    [data EXCEPT
        !.stop1_location = IF data.stop1_name # NoName /\ @ = NoLocation
                           THEN strip(data.stop1_name) ELSE @,
        !.stop2_location = IF data.stop2_name # NoName /\ @ = NoLocation
                           THEN strip(data.stop2_name) ELSE @,
        !.stop1_name = NoName,
        !.stop2_name = NoName]

\* The names TripSerializer.create passes to _ensure_location.
ensured_names(data) ==
    {n \in {data.stop1_name} : n # NoName /\ data.stop1_location = NoLocation}
    \cup {n \in {data.stop2_name} : n # NoName /\ data.stop2_location = NoLocation}

\* A create that computes the price whenever the request's price is falsy.
create_price_if_falsy(data, price_in, plans, links, hols) ==
    IF get(price_in) \in {None, 0}
    THEN pricing_for_trip(names_to_locations(data), plans, links, hols)
    ELSE price_in

\* TripSerializer.create: validated["price"], computed when the request
\* carries no price.
create_price(data, price_in, plans, links, hols) ==
    IF get(price_in) = None
    THEN pricing_for_trip(names_to_locations(data), plans, links, hols)
    ELSE price_in

\* The store of a pricing question: one PricePlan row, the customers linked
\* to it or to none, one holiday; and the trip data of the request to come.
InitPrice ==
    /\ trips = <<>>
    /\ assignments = {}
    /\ locations = {}
    /\ drivers = InitialDrivers
    /\ now = 0
    /\ \E pp \in PricePlans, linked \in BOOLEAN :
          /\ linked \/ pp = PricePlan(900, Time(22, 0), Time(6, 0), TRUE)
          /\ price_plans = (1 :> pp)
          /\ customer_price_plans = IF linked THEN (1 :> 1) @@ (2 :> 1) ELSE <<>>
    /\ holidays = HolidayDates
    /\ \E c \in {None, 1}, p \in PaxInputs, st \in StartTimes, d \in PriceDates,
          s1 \in StopInputs, s2 \in StopInputs :
          reqs = [r \in {"trip"} |->
                     [pc |-> "idle", data |-> TripData(c, p, st, d, s1, s2)]]
    /\ last = [op |-> "init", ok |-> TRUE, error |-> "", price_in |-> Absent,
               price |-> None, night |-> FALSE]

\* pricing_for_trip(data) on the request's data.
PriceTrip ==
    /\ reqs["trip"].pc = "idle"
    /\ LET data == reqs["trip"].data
           pp == resolve_plan(data.customer, price_plans, customer_price_plans)
       IN  last' = [op |-> "pricing_for_trip", ok |-> TRUE, error |-> "",
                    price_in |-> Absent,
                    price |-> pricing_for_trip(data, price_plans,
                                               customer_price_plans, holidays),
                    night |-> in_night_window(data.start_time, pp.night_start,
                                              pp.night_end)]
    /\ reqs' = [reqs EXCEPT !["trip"].pc = "done"]
    /\ UNCHANGED <<trips, assignments, locations, drivers, now, price_tables>>

\* POST /trips/ with the request's data and a price: the fields' own
\* validation (pax is required), validate, then create.
CreateTrip(price_in) ==
    /\ reqs["trip"].pc = "idle"
    /\ LET data == reqs["trip"].data
           error == IF data.pax = Absent THEN "pax"
                    ELSE validate(data.customer, price_in, customer_price_plans)
           price == create_price(data, price_in, price_plans,
                                 customer_price_plans, holidays)
           r == TripSerializer_create(DB, Absent, ensured_names(data),
                                      data.customer, data.date)
           id == NextTripId(trips)
       IN  IF error # ""
           THEN /\ UNCHANGED <<trips, assignments, locations>>
                /\ last' = [op |-> "create", ok |-> FALSE, error |-> error,
                            price_in |-> price_in, price |-> None, night |-> FALSE]
           ELSE /\ Commit([r.db EXCEPT !.trips[id] =
                               @ @@ [price |-> price, pax |-> data.pax,
                                     start_time |-> data.start_time,
                                     stop1_location |-> names_to_locations(data).stop1_location,
                                     stop2_location |-> names_to_locations(data).stop2_location]])
                /\ last' = [op |-> "create", ok |-> r.ok, error |-> "",
                            price_in |-> price_in, price |-> price, night |-> FALSE]
    /\ reqs' = [reqs EXCEPT !["trip"].pc = "done"]
    /\ UNCHANGED <<drivers, now, price_tables>>

\* validated of an update request: one of the values the price is
\* computed from, or a price.
PriceUpdateAttrs ==
    {[pax |-> 9],
     [date |-> <<2025, 12, 25>>],
     [start_time |-> Time(23, 0)],
     [stop1_location |-> "Sola"],
     [customer |-> 2],
     [price |-> 700]}

\* attrs.get(key, default).
attrs_get(attrs, key, default) == IF key \in DOMAIN attrs THEN attrs[key] ELSE default

\* PATCH /trips/1/ with attrs, after the create: validate with the customer
\* of attrs or else of the instance, then update.
UpdateTrip(attrs) ==
    /\ reqs["trip"].pc = "done"
    /\ 1 \in DOMAIN trips
    /\ LET price_in == attrs_get(attrs, "price", Absent)
           error == validate(attrs_get(attrs, "customer", trips[1].customer),
                             price_in, customer_price_plans)
           r == TripSerializer_update(DB, 1, trips[1], Absent, {}, attrs)
       IN  IF error # ""
           THEN /\ UNCHANGED <<trips, assignments, locations>>
                /\ last' = [op |-> "update", ok |-> FALSE, error |-> error,
                            price_in |-> price_in, price |-> trips[1].price,
                            night |-> FALSE]
           ELSE /\ Commit(r.db)
                /\ last' = [op |-> "update", ok |-> r.ok, error |-> "",
                            price_in |-> price_in, price |-> r.db.trips[1].price,
                            night |-> FALSE]
    /\ reqs' = [reqs EXCEPT !["trip"].pc = "updated"]
    /\ UNCHANGED <<drivers, now, price_tables>>

NextPrice ==
    \/ PriceTrip
    \/ \E p \in PriceInputs : CreateTrip(p)
    \/ \E attrs \in PriceUpdateAttrs : UpdateTrip(attrs)

SpecPrice == InitPrice /\ [][NextPrice]_vars

(***************************************************************************)
(* Flight matching: filter_by_flight_number.  A string is a sequence of    *)
(* characters; None and a missing key are the empty string, as (s or "")   *)
(* and `if f` make them.                                                   *)
(***************************************************************************)
\* Records of one filter_by_flight_number call.
MaxItems == 3

\* [A-Z] and [0-9], as far as the strings below use them.
UpperLetters == {"A", "D", "K", "N", "O", "S", "X", "Y", "Z"}
Digits == {"0", "1", "2", "4", "5", "6"}

\* str.upper() on one character.
upper(ch) ==
    CASE ch = "a" -> "A"
      [] ch = "d" -> "D"
      [] ch = "y" -> "Y"
      [] OTHER -> ch

\* _norm(s): (s or "").strip().upper().replace(" ", "").
_norm(s) ==
    SelectSeq([i \in 1 .. Len(s) |-> upper(s[i])], LAMBDA ch : ch # " ")

\* _digits(s): the digits of s, in order.
_digits(s) == SelectSeq(s, LAMBDA ch : ch \in Digits)

\* str.startswith.
startswith(s, prefix) ==
    Len(prefix) <= Len(s) /\ SubSeq(s, 1, Len(prefix)) = prefix

\* `q in s` of two strings.
contains(s, q) ==
    \E i \in 1 .. (Len(s) + 1) :
        i + Len(q) - 1 <= Len(s) /\ SubSeq(s, i, i + Len(q) - 1) = q

\* _CALLSIGN_RE: ^[A-Z]{3}[0-9A-Z]{1,5}$ on the normalised string.
looks_like_callsign(s) ==
    LET q == _norm(s)
    IN  /\ Len(q) \in 4 .. 8
        /\ \A i \in 1 .. 3 : q[i] \in UpperLetters
        /\ \A i \in 4 .. Len(q) : q[i] \in UpperLetters \cup Digits

\* AIRLINE_ALIASES.get(iata, []), for the airlines the queries below name.
AIRLINE_ALIASES(iata) ==
    CASE iata = <<"D", "Y">> -> {<<"N", "O", "Z">>, <<"N", "S", "Z">>, <<"N", "A", "X">>}
      [] iata = <<"S", "K">> -> {<<"S", "A", "S">>, <<"S", "Z", "S">>}
      [] OTHER -> {}

\* (None, None) of _split_iata_num.
NoSplit == [iata |-> <<>>, num |-> <<>>]

\* _split_iata_num(query): ^([A-Z]{2})([0-9]{1,4}[A-Z]?)$ on the normalised
\* query; the number is the digits of the second group.
_split_iata_num(query) ==
    LET q == _norm(query)
        rest == SubSeq(q, 3, Len(q))
        matches ==
            /\ Len(q) >= 3
            /\ q[1] \in UpperLetters /\ q[2] \in UpperLetters
            /\ \E k \in 1 .. 4 :
                  /\ k <= Len(rest)
                  /\ \A i \in 1 .. k : rest[i] \in Digits
                  /\ \/ Len(rest) = k
                     \/ (Len(rest) = k + 1 /\ rest[k + 1] \in UpperLetters)
    IN  IF matches THEN [iata |-> SubSeq(q, 1, 2), num |-> _digits(rest)]
        ELSE NoSplit

\* re.match(r"^([A-Z]+)", f): the leading run of letters, "" without one.
leading_letters(f) ==
    SubSeq(f, 1, Cardinality({k \in 1 .. Len(f) :
                                 \A i \in 1 .. k : f[i] \in UpperLetters}))

\* _match_flight_field(field, allowed_airline_codes, num).
_match_flight_field(field, allowed_airline_codes, num) ==
    LET f == _norm(field)
        fnum == _digits(f)
    IN  IF f = <<>> THEN FALSE
        ELSE IF fnum = <<>> \/ fnum # num THEN FALSE
        ELSE leading_letters(f) \in allowed_airline_codes

\* A callsign match that wants the digits equal to the number.
_match_callsign_field_exact(field, allowed_icao_codes, num) ==
    LET cs == _norm(field)
    IN  IF Len(cs) < 3 THEN FALSE
        ELSE IF SubSeq(cs, 1, 3) \notin allowed_icao_codes THEN FALSE
        ELSE _digits(SubSeq(cs, 4, Len(cs))) = num

\* _match_callsign_field(field, allowed_icao_codes, num).
_match_callsign_field(field, allowed_icao_codes, num) ==
    LET cs == _norm(field)
        ds == _digits(SubSeq(cs, 4, Len(cs)))
    IN  IF Len(cs) < 3 THEN FALSE
        ELSE IF SubSeq(cs, 1, 3) \notin allowed_icao_codes THEN FALSE
        ELSE IF ds = <<>> THEN FALSE
        ELSE ds = num \/ startswith(ds, num)

\* filter_by_flight_number, step 2: the records matched by flight field or
\* by callsign, in the order of items.
primary_matches(items, iata, num) ==
    LET allowed_iata == {iata}
        allowed_icao == AIRLINE_ALIASES(iata) \cup {iata}
        ok(it) ==
            \/ (it.flight # <<>> /\ _match_flight_field(it.flight, allowed_iata, num))
            \/ (it.callsign # <<>>
                    /\ _match_callsign_field(it.callsign, allowed_icao, num))
    IN  SelectSeq(items, ok)

\* A ladder that returns every record some stage matches.
fallback_ladder_any_stage(items, q) ==
    SelectSeq(items, LAMBDA it :
        \/ _digits(it.flight) = _digits(q) \/ _digits(it.callsign) = _digits(q)
        \/ contains(_norm(it.flight), q) \/ contains(_norm(it.callsign), q))

\* filter_by_flight_number, steps 3 and 4: digit equality, then startswith,
\* then substring; the first list that is not empty is returned.
fallback_ladder(items, q) ==
    LET ndigs == _digits(q)
        num_match == SelectSeq(items, LAMBDA it :
                        _digits(it.flight) = ndigs \/ _digits(it.callsign) = ndigs)
        starts == SelectSeq(items, LAMBDA it :
                        startswith(_norm(it.flight), q) \/ startswith(_norm(it.callsign), q))
        subs == SelectSeq(items, LAMBDA it :
                        contains(_norm(it.flight), q) \/ contains(_norm(it.callsign), q))
    IN  IF num_match # <<>> THEN num_match
        ELSE IF starts # <<>> THEN starts
        ELSE subs

\* An exact match that goes on to the ladder when it finds nothing.
exact_matches_or_ladder(items, q, field) ==
    LET out == SelectSeq(items, LAMBDA it : _norm(it[field]) = q)
    IN  IF out # <<>> THEN out ELSE fallback_ladder(items, q)

\* filter_by_flight_number, the two early returns: the records whose
\* normalised field ("callsign" in step 1, "flight" in step 2) is q.
exact_matches(items, q, field) ==
    SelectSeq(items, LAMBDA it : _norm(it[field]) = q)

\* filter_by_flight_number(items, query).
filter_by_flight_number(items, query) ==
    LET q == _norm(query)
        sp == _split_iata_num(q)
        out == primary_matches(items, sp.iata, sp.num)
    IN  IF looks_like_callsign(q)
        THEN exact_matches(items, q, "callsign")
        ELSE IF sp.iata = <<>> \/ sp.num = <<>>
        THEN exact_matches(items, q, "flight")
        ELSE IF out # <<>> THEN out
        ELSE fallback_ladder(items, q)

\* A record of the feed: its flight and callsign fields.
Flight(flight, callsign) == [flight |-> flight, callsign |-> callsign]

\* The records a call may be given.
FlightRecords ==
    {Flight(<<"D", "Y", " ", "5", "4", "0">>, <<>>),
     Flight(<<"d", "y", "5", "4", "0", "a">>, <<>>),
     Flight(<<"D", "Y", "A", "5", "4", "0">>, <<>>),
     Flight(<<>>, <<"N", "O", "Z", "5", "4", "0", "A">>),
     Flight(<<>>, <<"N", "A", "X", "6", "1", "2">>),
     Flight(<<"D", "Y", "5", "4", "1">>, <<"N", "O", "Z", "5", "4", "0", "1">>),
     Flight(<<>>, <<"D", "Y", "5", "4", "0">>),
     Flight(<<"S", "K", "5", "4", "0">>, <<"S", "A", "S", "5", "4", "0">>),
     Flight(<<"X", "X", "5", "4", "0", "1">>, <<>>),
     Flight(<<"A", "X", "X", "5", "4", "0", "1">>, <<>>)}

\* The queries a call may be given: four that split into IATA code and
\* number, a callsign, a bare number, and a hyphenated flight number.
FlightQueries ==
    {<<"D", "Y", "5", "4", "0">>,
     <<"d", "y", " ", "5", "4", "0", "a">>,
     <<"S", "K", "5", "4", "0">>,
     <<"X", "X", "5", "4", "0">>,
     <<"N", "O", "Z", " ", "5", "4", "0", "A">>,
     <<"5", "4", "0">>,
     <<"D", "Y", "-", "5", "4", "0">>}

\* The lists of at most n records.
ItemLists(n) == UNION {[1 .. k -> FlightRecords] : k \in 0 .. n}

\* A call of filter_by_flight_number is about to be made.
InitFlight ==
    /\ trips = <<>>
    /\ assignments = {}
    /\ locations = {}
    /\ drivers = InitialDrivers
    /\ NoPricePlans
    /\ now = 0
    /\ \E items \in ItemLists(MaxItems), query \in FlightQueries :
          reqs = [r \in {"flight"} |-> [pc |-> "idle", items |-> items, query |-> query]]
    /\ last = [op |-> "init", result |-> <<>>, primary |-> <<>>]

\* filter_by_flight_number(items, query); `primary` is the list `out` of
\* step 2, empty when the query does not reach that step.
FilterByFlightNumber ==
    /\ reqs["flight"].pc = "idle"
    /\ LET q == reqs["flight"]
           sp == _split_iata_num(_norm(q.query))
       IN  last' = [op |-> "filter_by_flight_number",
                    result |-> filter_by_flight_number(q.items, q.query),
                    primary |-> IF looks_like_callsign(_norm(q.query)) \/ sp = NoSplit
                                THEN <<>>
                                ELSE primary_matches(q.items, sp.iata, sp.num)]
    /\ reqs' = [reqs EXCEPT !["flight"].pc = "done"]
    /\ UNCHANGED <<trips, assignments, locations, drivers, now, price_tables>>

NextFlight == FilterByFlightNumber

SpecFlight == InitFlight /\ [][NextFlight]_vars

(***************************************************************************)
(* Avinor ETA: AirEtaAvinor.get picks one of the feed entries that match   *)
(* the flight number.  An entry is its eta_iso, a time in hours or None.   *)
(***************************************************************************)
\* Entries of the feed that match one flight number.
MaxHits == 3

\* dt.datetime.max, later than every time of the feed.
datetime_max == 99

\* eta_iso of a matching entry: None when no time could be parsed.
EtaInputs == {None, 1, 2, 3, 4}

\* dt.datetime.now(dt.timezone.utc) of a request.
EtaNows == {2, 3}

\* What the feed request gives: XML that parses, an exception of
\* requests.get, a redirect, a status of 400 or more, a body that is not
\* XML, XML that does not parse.
EtaUpstream == {"xml", "Timeout", "redirect", "HTTPError", "not_xml", "unparsable"}

\* score(item): (0, eta) for a time at or after now, (1, eta) for a past
\* time, (1, datetime.max) without a time.
score(item, now_) ==
    IF item = None THEN <<1, datetime_max>>
    ELSE IF item >= now_ THEN <<0, item>> ELSE <<1, item>>

\* The order of Python tuples.
tuple_lt(a, b) == a[1] < b[1] \/ (a[1] = b[1] /\ a[2] < b[2])

\* sorted(hits, key=score)[0]: the position of the first entry whose key is
\* the least (the sort is stable).
sorted_first(hits, now_) ==
    CHOOSE i \in 1 .. Len(hits) :
        /\ \A j \in 1 .. Len(hits) : ~tuple_lt(score(hits[j], now_), score(hits[i], now_))
        /\ \A j \in 1 .. (i - 1) : tuple_lt(score(hits[i], now_), score(hits[j], now_))

\* The lists of at most n matching entries.
HitLists(n) == UNION {[1 .. k -> EtaInputs] : k \in 0 .. n}

\* A request for a flight's ETA has fetched and parsed the feed.
InitEta ==
    /\ trips = <<>>
    /\ assignments = {}
    /\ locations = {}
    /\ drivers = InitialDrivers
    /\ NoPricePlans
    /\ now \in EtaNows
    /\ \E upstream \in EtaUpstream, hits \in HitLists(MaxHits) :
          /\ upstream # "xml" => hits = <<>>
          /\ reqs = [r \in {"eta"} |->
                        [pc |-> "idle", upstream |-> upstream, hits |-> hits]]
    /\ last = [op |-> "init", status |-> 0, picked |-> 0, eta |-> None]

\* AirEtaAvinor.get: 502 when the feed cannot be fetched or parsed, 404
\* without a match, else the entry sorted first; `picked` is its position
\* in hits.
AirEtaAvinor ==
    /\ reqs["eta"].pc = "idle"
    /\ LET hits == reqs["eta"].hits
       IN  IF reqs["eta"].upstream # "xml"
           THEN last' = [op |-> "eta_avinor", status |-> 502, picked |-> 0, eta |-> None]
           ELSE IF hits = <<>>
           THEN last' = [op |-> "eta_avinor", status |-> 404, picked |-> 0, eta |-> None]
           ELSE last' = [op |-> "eta_avinor", status |-> 200,
                         picked |-> sorted_first(hits, now),
                         eta |-> hits[sorted_first(hits, now)]]
    /\ reqs' = [reqs EXCEPT !["eta"].pc = "done"]
    /\ UNCHANGED <<trips, assignments, locations, drivers, now, price_tables>>

NextEta == AirEtaAvinor

SpecEta == InitEta /\ [][NextEta]_vars

(***************************************************************************)
(* FR24 upstream calls: airport_arrivals with its candidate endpoints,     *)
(* live_positions and live_positions_multi.  An upstream call raises       *)
(* (exc) or answers with a status and a body: "list" is JSON holding a     *)
(* list of records, "unknown" is JSON of another structure, "invalid" is   *)
(* not JSON.  A record is its fr24_id.                                     *)
(***************************************************************************)
\* Bounds boxes of one live_positions_multi call.
MaxBounds == 2

\* The outcome of one requests.get.
Upstream(exc, status, body, items) ==
    [exc |-> exc, status |-> status, body |-> body, items |-> items]

\* What a candidate endpoint of the airport board can do.
BoardOutcomes ==
    {Upstream("Timeout", 0, "", <<>>),
     Upstream("", 404, "unknown", <<>>),
     Upstream("", 200, "invalid", <<>>),
     Upstream("", 200, "list", <<1>>),
     Upstream("", 200, "unknown", <<>>)}

\* What a live-positions call can do.
LiveOutcomes ==
    BoardOutcomes \cup {Upstream("", 200, "list", <<1, 2>>), Upstream("", 200, "list", <<2>>)}

\* No exception; an exception of a type, raised for candidate `at` (0
\* outside the candidate loop).
NoExc == [type |-> "", at |-> 0]
Exc(type, at) == [type |-> type, at |-> at]

\* What a call gives its caller: the calls it made, and an exception or a
\* returned value (kind "list", "empty" or "raw") with the candidate it is
\* from and its records.
Raised(exc, requested) ==
    [requested |-> requested, raised |-> exc, returned |-> "", from |-> 0, out |-> <<>>]
Returned(kind, from, out, requested) ==
    [requested |-> requested, raised |-> NoExc, returned |-> kind, from |-> from, out |-> out]

\* airport_code as given: an IATA code, an ICAO code, neither.
AirportCodes == {"SVG", " enzv ", "NORWAY"}

\* len(code) of (airport_code or "").strip().upper().
code_len(airport_code) ==
    CASE airport_code = "SVG" -> 3
      [] airport_code = " enzv " -> 4
      [] OTHER -> 6

\* An end of the candidate loop that returns the empty list.
after_loop_empty(last_exc, requested) == Returned("empty", 0, <<>>, requested)

\* airport_arrivals after the loop: raise last_exc if set, else [].
after_loop(last_exc, requested) ==
    IF last_exc # NoExc THEN Raised(last_exc, requested)
    ELSE Returned("empty", 0, <<>>, requested)

\* airport_arrivals, the loop over candidates from the i-th on.
RECURSIVE candidates_loop(_, _, _, _, _)
candidates_loop(outcomes, i, last_exc, requested, return_raw) ==
    IF i > Len(outcomes) THEN after_loop(last_exc, requested)
    ELSE LET r == outcomes[i]
             asked == Append(requested, i)
         IN  IF r.exc # ""
             THEN candidates_loop(outcomes, i + 1, Exc(r.exc, i), asked, return_raw)
             ELSE IF r.status >= 400
             THEN candidates_loop(outcomes, i + 1, Exc("HTTPError", i), asked, return_raw)
             ELSE IF r.body = "invalid"
             THEN candidates_loop(outcomes, i + 1, Exc("JSONDecodeError", i), asked, return_raw)
             ELSE IF return_raw THEN Returned("raw", i, <<>>, asked)
             ELSE IF r.body # "list" THEN Returned("empty", i, <<>>, asked)
             ELSE Returned("list", i, r.items, asked)

\* airport_arrivals(airport_code, ..., return_raw) with the token set or
\* not and the outcomes of p1, p2, p3.
airport_arrivals(token, airport_code, outcomes, return_raw) ==
    IF ~token THEN Raised(Exc("RuntimeError", 0), <<>>)
    ELSE IF code_len(airport_code) \notin {3, 4} THEN Raised(Exc("ValueError", 0), <<>>)
    ELSE candidates_loop(outcomes, 1, NoExc, <<>>, return_raw)

\* live_positions(bounds): raise_for_status and r.json() raise; a body
\* without a list of records gives no records.
live_positions(r) ==
    IF r.exc # "" THEN Raised(Exc(r.exc, 0), <<1>>)
    ELSE IF r.status >= 400 THEN Raised(Exc("HTTPError", 0), <<1>>)
    ELSE IF r.body = "invalid" THEN Raised(Exc("JSONDecodeError", 0), <<1>>)
    ELSE Returned("list", 0, IF r.body = "list" THEN r.items ELSE <<>>, <<1>>)

\* live_positions_multi, the loop over bounds from the i-th on: a call that
\* raises counts as no records; records already seen are skipped.
RECURSIVE live_positions_multi_loop(_, _, _)
live_positions_multi_loop(outcomes, i, out) ==
    IF i > Len(outcomes) THEN out
    ELSE LET res == live_positions(outcomes[i])
             items == IF res.raised # NoExc THEN <<>> ELSE res.out
             seen == {out[k] : k \in 1 .. Len(out)}
         IN  live_positions_multi_loop(outcomes, i + 1,
                 out \o SelectSeq(items, LAMBDA it : it \notin seen))

\* live_positions_multi(bounds_list).
live_positions_multi(outcomes) ==
    Returned("list", 0, live_positions_multi_loop(outcomes, 1, <<>>),
             [k \in 1 .. Len(outcomes) |-> k])

\* The outcomes of p1, p2, p3.
CandidateOutcomes == [1 .. 3 -> BoardOutcomes]

\* A request for the arrivals board is about to be served.
InitBoard ==
    /\ trips = <<>>
    /\ assignments = {}
    /\ locations = {}
    /\ drivers = InitialDrivers
    /\ NoPricePlans
    /\ now = 0
    /\ \E token \in BOOLEAN, code \in AirportCodes,
          outcomes \in CandidateOutcomes, raw \in BOOLEAN :
          /\ (~token \/ code = "NORWAY") => (raw = FALSE /\ outcomes = [k \in 1 .. 3 |-> Upstream("Timeout", 0, "", <<>>)])
          /\ reqs = [r \in {"board"} |->
                        [pc |-> "idle", token |-> token, airport |-> code,
                         outcomes |-> outcomes, return_raw |-> raw]]
    /\ last = [op |-> "init", status |-> 0, res |-> Returned("", 0, <<>>, <<>>)]

\* AirArrivalsFR24.get: airport_arrivals, answered with 502 when it raises.
AirArrivalsFR24 ==
    /\ reqs["board"].pc = "idle"
    /\ LET q == reqs["board"]
           res == airport_arrivals(q.token, q.airport, q.outcomes, q.return_raw)
       IN  last' = [op |-> "airport_arrivals",
                    status |-> IF res.raised # NoExc THEN 502 ELSE 200,
                    res |-> res]
    /\ reqs' = [reqs EXCEPT !["board"].pc = "done"]
    /\ UNCHANGED <<trips, assignments, locations, drivers, now, price_tables>>

NextBoard == AirArrivalsFR24

SpecBoard == InitBoard /\ [][NextBoard]_vars

\* The outcomes of the calls for at most n bounds boxes.
BoundsOutcomes(n) == UNION {[1 .. k -> LiveOutcomes] : k \in 0 .. n}

\* A call of live_positions or of live_positions_multi is about to be made.
InitLive ==
    /\ trips = <<>>
    /\ assignments = {}
    /\ locations = {}
    /\ drivers = InitialDrivers
    /\ NoPricePlans
    /\ now = 0
    /\ \E call \in {"live_positions", "live_positions_multi"},
          outcomes \in BoundsOutcomes(MaxBounds) :
          /\ call = "live_positions" => Len(outcomes) = 1
          /\ reqs = [r \in {"live"} |-> [pc |-> "idle", call |-> call, outcomes |-> outcomes]]
    /\ last = [op |-> "init", res |-> Returned("", 0, <<>>, <<>>)]

\* live_positions(bounds).
LivePositions ==
    /\ reqs["live"].pc = "idle"
    /\ reqs["live"].call = "live_positions"
    /\ last' = [op |-> "live_positions", res |-> live_positions(reqs["live"].outcomes[1])]
    /\ reqs' = [reqs EXCEPT !["live"].pc = "done"]
    /\ UNCHANGED <<trips, assignments, locations, drivers, now, price_tables>>

\* live_positions_multi(bounds_list).
LivePositionsMulti ==
    /\ reqs["live"].pc = "idle"
    /\ reqs["live"].call = "live_positions_multi"
    /\ last' = [op |-> "live_positions_multi",
                res |-> live_positions_multi(reqs["live"].outcomes)]
    /\ reqs' = [reqs EXCEPT !["live"].pc = "done"]
    /\ UNCHANGED <<trips, assignments, locations, drivers, now, price_tables>>

NextLive == LivePositions \/ LivePositionsMulti

SpecLive == InitLive /\ [][NextLive]_vars

(***************************************************************************)
(* The import_holidays command.  A date is <<year, day of the year>>; the  *)
(* Holiday table is a set of rows, `date` being unique.                    *)
(***************************************************************************)
\* Entries of one answer of the public-holiday API.
MaxApi == 2

\* --year.
Years == {2024, 2025}

\* dt.date(year, 1, 1).weekday(): Monday is 0, Sunday is 6.
jan1_weekday(year) ==
    CASE year = 2024 -> 0
      [] year = 2025 -> 2
      [] year = 2026 -> 3

\* The number of days of the year.
days_in_year(year) == IF year % 4 = 0 THEN 366 ELSE 365

\* d.weekday().
weekday(d) == (jan1_weekday(d[1]) + d[2] - 1) % 7

\* d + dt.timedelta(days=n), for n of at most a week.
add_days(d, n) ==
    IF d[2] + n > days_in_year(d[1]) THEN <<d[1] + 1, d[2] + n - days_in_year(d[1])>>
    ELSE <<d[1], d[2] + n>>

\* iter_sundays, the loop: yield d and go on a week while d is in the year.
RECURSIVE iter_sundays_from(_, _)
iter_sundays_from(d, year) ==
    IF d[1] # year THEN <<>>
    ELSE <<d>> \o iter_sundays_from(add_days(d, 7), year)

\* Every seventh day from 1 January on, whatever its weekday.
iter_weeks_from_new_year(year) == iter_sundays_from(<<year, 1>>, year)

\* iter_sundays(year).
iter_sundays(year) ==
    LET d == <<year, 1>>
        days_until_sunday == (6 - weekday(d)) % 7
    IN  iter_sundays_from(add_days(d, days_until_sunday), year)

\* A Holiday row.
Holiday(date, name, country_code) ==
    [date |-> date, name |-> name, country_code |-> country_code]

\* Holiday.objects.update_or_create(date=d, defaults={name, country_code}).
Holiday_update_or_create(hols, d, name, country) ==
    {h \in hols : h.date # d} \cup {Holiday(d, name, country)}

\* Holiday.objects.get_or_create(date=d, defaults={name, country_code}).
Holiday_get_or_create(hols, d, name, country) ==
    IF \E h \in hols : h.date = d THEN hols
    ELSE hols \cup {Holiday(d, name, country)}

\* No date: h.get("date") is None or not an ISO date.
NoDate == <<0, 0>>

\* An entry of the API answer.
ApiEntry(date, localName, name) == [date |-> date, localName |-> localName, name |-> name]

\* Easter Sunday of the year.
easter(year) == IF year = 2024 THEN <<2024, 91>> ELSE <<year, 110>>

\* The entries the API may answer with for a year: a holiday on a Sunday,
\* one on another day, one without any name, one without a date.
ApiEntries(year) ==
    {ApiEntry(easter(year), "1. paskedag", "Easter Sunday"),
     ApiEntry(<<year, 1>>, "", "New Year's Day"),
     ApiEntry(add_days(easter(year), 1), "", ""),
     ApiEntry(NoDate, "", "Broken")}

\* The answers of at most n entries.
ApiPayloads(year, n) == UNION {[1 .. k -> ApiEntries(year)] : k \in 0 .. n}

\* Step 2, the loop over holidays_from_api from the i-th entry on.
RECURSIVE store_api_holidays(_, _, _, _)
store_api_holidays(hols, fetched, i, country) ==
    IF i > Len(fetched) THEN hols
    ELSE LET h == fetched[i]
             name == IF h.localName # "" THEN h.localName
                     ELSE IF h.name # "" THEN h.name ELSE "Helligdag"
         IN  IF h.date = NoDate THEN store_api_holidays(hols, fetched, i + 1, country)
             ELSE store_api_holidays(Holiday_update_or_create(hols, h.date, name, country),
                                     fetched, i + 1, country)

\* Step 3, the loop over iter_sundays(year) from the i-th Sunday on.
RECURSIVE mark_sundays(_, _, _, _)
mark_sundays(hols, sundays, i, country) ==
    IF i > Len(sundays) THEN hols
    ELSE mark_sundays(Holiday_get_or_create(hols, sundays[i], "Sondag", country),
                      sundays, i + 1, country)

\* The rows the table may hold before the command runs: an earlier import
\* of Easter Sunday, a Sunday marked by an earlier run, a holiday of the
\* next year.
ExistingHolidays(year) ==
    {Holiday(easter(year), "Paske", "NO"),
     Holiday(add_days(easter(year), 7), "Sondag", "SE"),
     Holiday(<<2026, 1>>, "Nyttarsdag", "NO")}

\* The command is started for a year.
InitHolidays ==
    /\ trips = <<>>
    /\ assignments = {}
    /\ locations = {}
    /\ drivers = InitialDrivers
    /\ price_plans = <<>>
    /\ customer_price_plans = <<>>
    /\ now = 0
    /\ \E year \in Years :
          /\ holidays \in SUBSET ExistingHolidays(year)
          /\ \E skip_api \in BOOLEAN, api \in {"ok", "RequestException"},
                payload \in ApiPayloads(year, MaxApi) :
                /\ (skip_api \/ api # "ok") => (payload = <<>>)
                /\ skip_api => api = "ok"
                /\ reqs = [r \in {"import"} |->
                              [pc |-> "fetch", year |-> year, country |-> "NO",
                               skip_api |-> skip_api, api |-> api,
                               payload |-> payload, fetched |-> <<>>]]
    /\ last = [op |-> "init", before |-> {}]

\* handle, step 1: the API answer, or nothing with --skip-api or when the
\* request fails.
FetchHolidays ==
    /\ reqs["import"].pc = "fetch"
    /\ LET q == reqs["import"]
       IN  reqs' = [reqs EXCEPT !["import"].pc = "store",
                                !["import"].fetched =
                                    IF q.skip_api \/ q.api # "ok" THEN <<>> ELSE q.payload]
    /\ last' = [op |-> "fetch", before |-> holidays]
    /\ UNCHANGED <<trips, assignments, locations, drivers, now, price_plans,
                   customer_price_plans, holidays>>

\* handle, step 2: one transaction that stores the API holidays.
StoreHolidays ==
    /\ reqs["import"].pc = "store"
    /\ holidays' = store_api_holidays(holidays, reqs["import"].fetched, 1,
                                      reqs["import"].country)
    /\ reqs' = [reqs EXCEPT !["import"].pc = "sundays"]
    /\ last' = [op |-> "store", before |-> holidays]
    /\ UNCHANGED <<trips, assignments, locations, drivers, now, price_plans,
                   customer_price_plans>>

\* handle, step 3: one transaction that marks the Sundays of the year;
\* `before` is the table as step 3 found it.
MarkSundays ==
    /\ reqs["import"].pc = "sundays"
    /\ holidays' = mark_sundays(holidays, iter_sundays(reqs["import"].year), 1,
                                reqs["import"].country)
    /\ reqs' = [reqs EXCEPT !["import"].pc = "done"]
    /\ last' = [op |-> "sundays", before |-> holidays]
    /\ UNCHANGED <<trips, assignments, locations, drivers, now, price_plans,
                   customer_price_plans>>

NextHolidays == FetchHolidays \/ StoreHolidays \/ MarkSundays

SpecHolidays == InitHolidays /\ [][NextHolidays]_vars

(***************************************************************************)
(* Two trip create/update requests that name a location, running           *)
(* concurrently.  The Location table is a set of rows with their ids; a    *)
(* request is a transaction whose inserted row is pending until it         *)
(* commits.  The unique index on Location.name makes an insert fail when a *)
(* committed row has the name and wait while another transaction holds a   *)
(* pending row with it.                                                    *)
(***************************************************************************)
\* The two requests.
LocRequests == {"a", "b"}

\* A Location row.
Location(id, name) == [id |-> id, name |-> name]

\* No row.
NoRow == Location(0, "")

\* The pending rows of the transactions in flight.
PendingRows == {reqs[r].pending : r \in DOMAIN reqs} \ {NoRow}

\* A table whose name column is not unique.
not_unique(rows, name) == FALSE

\* Location.name, unique=True: the rows stand in the way of another row
\* with this name.
unique_violation(rows, name) == \E row \in rows : row.name = name

\* Location.objects.get(name=name), None as NoRow.
Location_get(rows, name) ==
    IF \E row \in rows : row.name = name
    THEN CHOOSE row \in rows : row.name = name
    ELSE NoRow

\* The id the table's sequence gives the next row.
next_location_id ==
    1 + Cardinality(locations \cup PendingRows)
      + Cardinality({r \in DOMAIN reqs : reqs[r].pc = "done" /\ ~reqs[r].ok
                                           /\ reqs[r].inserted})

\* The requests: create or update, the origin_name, whether the request
\* fails after its locations are ensured (a driver_id naming no driver).
LocRequest(op, name, fails) ==
    [pc |-> "idle", op |-> op, name |-> name, fails |-> fails,
     loc |-> 0, pending |-> NoRow, inserted |-> FALSE, ok |-> FALSE, trip |-> 0]

\* A trip exists whose origin is location 1; the location named by the
\* requests exists or not.
InitLocations ==
    /\ trips = <<[origin |-> 1]>>
    /\ assignments = {}
    /\ locations \in {{Location(1, "Forus")},
                      {Location(1, "Forus"), Location(2, "Sola")}}
    /\ drivers = InitialDrivers
    /\ NoPricePlans
    /\ now = 0
    /\ reqs \in [LocRequests ->
                    {LocRequest(op, name, fails) :
                        op \in {"create", "update"}, name \in RawNames,
                        fails \in BOOLEAN}]
    /\ last = [op |-> "init"]

\* _ensure_location, get_or_create's lookup: the committed row with the
\* stripped name, if there is one.
EnsureLocationGet(r) ==
    /\ reqs[r].pc = "idle"
    /\ LET row == Location_get(locations, strip(reqs[r].name))
       IN  reqs' = [reqs EXCEPT ![r].pc = IF row = NoRow THEN "create" ELSE "have",
                                ![r].loc = row.id]
    /\ UNCHANGED <<trips, assignments, locations, drivers, now, last, price_tables>>

\* _ensure_location, get_or_create's insert after a lookup that found
\* nothing.  Against a committed row of the name the insert raises
\* IntegrityError and get_or_create looks the row up again: it is found, or
\* (a transaction that reads from its snapshot) the error is raised and the
\* request rolls back.  Against a pending row of the name the insert waits;
\* the store may give the wait up and fail the request.
EnsureLocationCreate(r) ==
    /\ reqs[r].pc = "create"
    /\ LET name == strip(reqs[r].name)
           row == Location(next_location_id, name)
       IN  IF unique_violation(locations, name)
           THEN \/ reqs' = [reqs EXCEPT ![r].pc = "have",
                                        ![r].loc = Location_get(locations, name).id]
                \/ reqs' = [reqs EXCEPT ![r].pc = "done", ![r].ok = FALSE]
           ELSE IF unique_violation(PendingRows, name)
           THEN reqs' = [reqs EXCEPT ![r].pc = "done", ![r].ok = FALSE]
           ELSE reqs' = [reqs EXCEPT ![r].pc = "have", ![r].loc = row.id,
                                     ![r].pending = row, ![r].inserted = TRUE]
    /\ UNCHANGED <<trips, assignments, locations, drivers, now, last, price_tables>>

\* The rest of create/update, and the end of the transaction: the trip row
\* is written with the location and the request commits, or the request
\* raises and its pending row is rolled back.
FinishRequest(r) ==
    /\ reqs[r].pc = "have"
    /\ IF reqs[r].fails
       THEN /\ reqs' = [reqs EXCEPT ![r].pc = "done", ![r].ok = FALSE,
                                    ![r].pending = NoRow]
            /\ UNCHANGED <<trips, locations>>
       ELSE /\ locations' = locations \cup ({reqs[r].pending} \ {NoRow})
            /\ trips' = IF reqs[r].op = "create"
                        THEN Append(trips, [origin |-> reqs[r].loc])
                        ELSE [trips EXCEPT ![1].origin = reqs[r].loc]
            /\ reqs' = [reqs EXCEPT ![r].pc = "done", ![r].ok = TRUE,
                                    ![r].pending = NoRow,
                                    ![r].trip = IF reqs[r].op = "create"
                                                THEN Len(trips) + 1 ELSE 1]
    /\ UNCHANGED <<assignments, drivers, now, last, price_tables>>

\* The steps of the two requests, interleaved in any order.
NextLocations ==
    \/ \E r \in LocRequests : EnsureLocationGet(r)
    \/ \E r \in LocRequests : EnsureLocationCreate(r)
    \/ \E r \in LocRequests : FinishRequest(r)

SpecLocations == InitLocations /\ [][NextLocations]_vars

(***************************************************************************)
(* A trip update running concurrently with assign_driver, unassign_driver  *)
(* or set_invoiced on the same trip.  The update view reads the trip row   *)
(* (get_object), and ModelSerializer.update later saves every column of    *)
(* the instance it read.                                                   *)
(***************************************************************************)
\* The update request, not begun.
NoUpdate == [pc |-> "idle", trip |-> 0, instance |-> NewTrip("", None, <<0, 0>>), ok |-> FALSE]

\* One trip, unassigned or assigned to driver 1, not invoiced; no request
\* begun.
InitUpdateConc ==
    /\ \E status \in {"unassigned", "assigned"} :
          /\ trips = <<NewTrip(status, 1, <<2025, 1>>)>>
          /\ assignments = IF status = "assigned" THEN update_or_create({}, 1, 1) ELSE {}
    /\ locations = {}
    /\ drivers = InitialDrivers
    /\ NoPricePlans
    /\ now = 0
    /\ reqs = [r \in {"assign", "unassign", "update"} |->
                  IF r = "update" THEN NoUpdate ELSE NoReqs[r]]
    /\ last = [op |-> "init", ok |-> TRUE, trip |-> 0, invoiced |-> JAbsent,
               customer |-> Absent, month |-> "", again |-> FALSE,
               user |-> None, time |-> 0, updated |-> 0,
               pre_at |-> None, pre_by |-> None]

\* PUT/PATCH /trips/<trip>/: instance = self.get_object().
BeginUpdate(trip) ==
    /\ reqs["update"].pc = "idle"
    /\ trip \in DOMAIN trips
    /\ reqs' = [reqs EXCEPT !["update"] =
                    [pc |-> "read", trip |-> trip, instance |-> trips[trip], ok |-> FALSE]]
    /\ UNCHANGED <<trips, assignments, locations, drivers, now, last, price_tables>>

\* PUT/PATCH /trips/<trip>/ without driver_id: serializer.save(), which is
\* TripSerializer.update on the instance read, and the commit.
CommitUpdate ==
    /\ reqs["update"].pc = "read"
    /\ LET q == reqs["update"]
           r == TripSerializer_update(DB, q.trip, q.instance, Absent, {}, NoAttrs)
       IN  /\ Commit(r.db)
           /\ reqs' = [reqs EXCEPT !["update"].pc = "done", !["update"].ok = r.ok]
    /\ UNCHANGED <<drivers, now, last, price_tables>>

\* One update request, and assign_driver, unassign_driver and set_invoiced
\* requests on the same trip (set_invoiced with true, by user 1), their
\* steps interleaved in any order.
NextUpdateConc ==
    \/ \E t \in {1} : BeginUpdate(t)
    \/ CommitUpdate
    \/ \E t \in {1}, d \in DriverIdInputs : BeginAssign(t, d)
    \/ CommitAssign
    \/ \E t \in {1} : BeginUnassign(t)
    \/ CommitUnassign
    \/ \E t \in {1}, i \in {JTrue}, u \in {1} : SetInvoiced(t, i, u)

SpecUpdateConc == InitUpdateConc /\ [][NextUpdateConc]_vars

(***************************************************************************)
(* The assignment state machine: status against Assignment rows.           *)
(***************************************************************************)
\* The trip's status says 'assigned' exactly when it has an Assignment row.
StatusAgrees(t) ==
    (trips[t].status = "assigned") <=> (AssignmentsOf(assignments, t) # {})

\* C1, as stated: after an assign_driver or unassign_driver operation (the
\* trip's status possibly set to 'exception' by the admin before), the
\* trip's status is 'assigned' iff an Assignment exists for it.
C1_StatusIffAssignment ==
    (last.op \in {"assign_driver", "unassign_driver"} /\ last.ok)
        => StatusAgrees(last.trip)

\* C1, amended: in every state the assign and unassign operations reach,
\* a trip whose status is not 'exception' has status 'assigned' iff an
\* Assignment exists for it (a trip in 'exception' may have one or not).
C1_StatusIffAssignmentUnlessException ==
    \A t \in DOMAIN trips : trips[t].status # "exception" => StatusAgrees(t)

\* C1's case: assign_driver recorded an Assignment on a trip in 'exception'
\* and left the status alone.
C1_Witness ==
    /\ last.op = "assign_driver" /\ last.ok
    /\ last.pre_status = "exception" /\ last.pre_drivers = {}
    /\ trips[last.trip].status = "exception"
    /\ AssignmentsOf(assignments, last.trip) # {}

\* C2: in every state the API's operations reach, status 'assigned' implies
\* an Assignment exists for the trip and status 'unassigned' implies none
\* does.
C2_StatusImpliesAssignment ==
    \A t \in DOMAIN trips :
        /\ trips[t].status = "assigned" => AssignmentsOf(assignments, t) # {}
        /\ trips[t].status = "unassigned" => AssignmentsOf(assignments, t) = {}

\* C3: once a concurrent assign_driver and unassign_driver request on the
\* same trip have both committed, the trip's status is 'assigned' iff an
\* Assignment exists for it.
C3_ConcurrentAssignUnassignAgree ==
    (/\ reqs["assign"].pc = "done" /\ reqs["assign"].ok
     /\ reqs["unassign"].pc = "done" /\ reqs["unassign"].ok
     /\ reqs["assign"].trip = reqs["unassign"].trip)
        => StatusAgrees(reqs["assign"].trip)

\* C4: a successful assign (assign_driver, or an update carrying driver_id)
\* of an existing active driver d leaves exactly one Assignment for the
\* trip, naming d; the status becomes 'assigned' if it was 'unassigned' and
\* is otherwise what it was.
C4_AssignLeavesOneAssignment ==
    (/\ last.op \in {"assign_driver", "update"}
     /\ last.driver_id \in DOMAIN drivers
     /\ drivers[last.driver_id].active)
        => /\ last.ok
           /\ AssignmentsOf(assignments, last.trip)
                  = {[trip |-> last.trip, driver |-> last.driver_id]}
           /\ trips[last.trip].status
                  = IF last.pre_status = "unassigned" THEN "assigned"
                    ELSE last.pre_status

\* C4's case: assign_driver replaced the Assignment of another driver on a
\* trip in 'exception'.
C4_Witness ==
    /\ last.op = "assign_driver" /\ last.ok
    /\ last.pre_status = "exception"
    /\ last.pre_drivers # {} /\ last.driver_id \notin last.pre_drivers
    /\ DriversOf(assignments, last.trip) = {last.driver_id}

\* C5: an assign operation (assign_driver, or an update carrying a driver_id)
\* whose driver_id is missing, names no driver or names an inactive driver
\* fails, and the trip's status and Assignment are what they were.
C5_IneligibleAssignFails ==
    (/\ last.op \in {"assign_driver", "update"}
     /\ last.op = "update" => last.driver_id \notin {Absent, None}
     /\ ~(last.driver_id \in DOMAIN drivers /\ drivers[last.driver_id].active))
        => /\ ~last.ok
           /\ StatusOf(last.trip) = last.pre_status
           /\ DriversOf(assignments, last.trip) = last.pre_drivers

\* C5's case: an update naming an inactive driver failed on a trip that has
\* an Assignment.
C5_Witness ==
    /\ last.op = "update" /\ ~last.ok
    /\ last.driver_id \in DOMAIN drivers /\ ~drivers[last.driver_id].active
    /\ last.pre_drivers # {}

\* What C6 says of a rejected create: no Trip row, no Assignment and no
\* Location of the request remain.
NothingPersisted ==
    /\ ~last.ok
    /\ Cardinality(DOMAIN trips) = last.pre_ntrips
    /\ AssignmentsOf(assignments, last.trip) = {}
    /\ locations = last.pre_locations

\* C6, as stated: a create carrying the driver_id of a nonexistent or
\* inactive driver is rejected and persists nothing.
C6_BadDriverCreatePersistsNothing ==
    (/\ last.op = "create"
     /\ last.driver_id \notin {Absent, None}
     /\ ~(last.driver_id \in DOMAIN drivers /\ drivers[last.driver_id].active))
        => NothingPersisted

\* C6, amended: a create carrying a non-zero driver_id of a nonexistent or
\* inactive driver is rejected and persists nothing; a driver_id of 0 counts
\* as no driver_id: the trip is created 'unassigned' with no Assignment.
C6_NonZeroBadDriverCreatePersistsNothing ==
    /\ (/\ last.op = "create"
        /\ last.driver_id \notin {Absent, None, 0}
        /\ ~(last.driver_id \in DOMAIN drivers /\ drivers[last.driver_id].active))
           => NothingPersisted
    /\ (last.op = "create" /\ last.driver_id = 0)
           => /\ last.ok
              /\ last.trip \in DOMAIN trips
              /\ trips[last.trip].status = "unassigned"
              /\ AssignmentsOf(assignments, last.trip) = {}

\* C6's case: a create naming an inactive driver and a location that does
\* not exist yet was rejected.
C6_Witness ==
    /\ last.op = "create" /\ ~last.ok
    /\ last.driver_id \in DOMAIN drivers /\ ~drivers[last.driver_id].active
    /\ last.names # {} /\ last.pre_locations = {}

\* C7: an update whose driver_id is null, on a trip that has an Assignment,
\* deletes the Assignment and leaves the status 'unassigned'.
C7_NullDriverUpdateUnassigns ==
    (last.op = "update" /\ last.driver_id = None /\ last.pre_drivers # {})
        => /\ AssignmentsOf(assignments, last.trip) = {}
           /\ trips[last.trip].status = "unassigned"

\* C8: unassign_driver on a trip with no Assignment succeeds and leaves the
\* status what it was, whatever it was; when it was 'unassigned' the trip
\* is not saved.
C8_UnassignWithoutAssignmentIsNoOp ==
    (last.op = "unassign_driver" /\ last.pre_drivers = {})
        => /\ last.ok
           /\ trips[last.trip].status = last.pre_status
           /\ last.pre_status = "unassigned" => ~last.saved

\* C9: create, update, assign_driver and unassign_driver never change a
\* status of 'exception' and never set one.
C9_ExceptionUntouched ==
    last.op \in {"create", "update", "assign_driver", "unassign_driver"}
        => ((last.pre_status = "exception") <=> (StatusOf(last.trip) = "exception"))

(***************************************************************************)
(* Invoicing: the flag and its paired stamp.                               *)
(***************************************************************************)
\* C10: through any sequence of set_invoiced and bulk_invoice requests every
\* trip has invoiced true iff invoiced_at is set iff invoiced_by is set;
\* set_invoiced(true) stamps the current time and the acting user, also on a
\* trip already invoiced; set_invoiced(false) clears both paired fields.
C10_InvoicedPaired ==
    /\ \A t \in DOMAIN trips :
          /\ trips[t].invoiced <=> (trips[t].invoiced_at # None)
          /\ trips[t].invoiced <=> (trips[t].invoiced_by # None)
    /\ (last.op = "set_invoiced" /\ last.invoiced = JTrue)
          => /\ last.ok
             /\ trips[last.trip].invoiced
             /\ trips[last.trip].invoiced_at = last.time
             /\ trips[last.trip].invoiced_by = last.user
    /\ (last.op = "set_invoiced" /\ last.invoiced = JFalse)
          => /\ last.ok
             /\ ~trips[last.trip].invoiced
             /\ trips[last.trip].invoiced_at = None
             /\ trips[last.trip].invoiced_by = None

\* set_invoiced(true) re-stamped a trip another user had invoiced earlier,
\* while another trip keeps its earlier stamp.
C10_Witness ==
    /\ last.op = "set_invoiced" /\ last.invoiced = JTrue
    /\ last.pre_at # None /\ last.pre_at # last.time
    /\ last.pre_by # None /\ last.pre_by # last.user
    /\ trips[last.trip].invoiced_at = last.time
    /\ trips[last.trip].invoiced_by = last.user
    /\ \E t \in DOMAIN trips : trips[t].invoiced /\ trips[t].invoiced_at # last.time

\* C11: a bulk_invoice request that repeats the request served just before
\* it (same customer, month and invoiced value, nothing but time in between)
\* reports zero updated rows and leaves every trip, stamps included, as the
\* first call left it.
C11_BulkInvoiceIdempotent ==
    [][(last'.op = "bulk_invoice" /\ last'.again)
          => (last'.updated = 0 /\ trips' = trips)]_vars

\* A bulk_invoice that updated a row was repeated at a later time by
\* another user.
C11_Witness ==
    /\ last.op = "bulk_invoice" /\ last.again /\ last.ok
    /\ last.updated = 0
    /\ \E t \in DOMAIN trips :
          /\ trips[t].invoiced
          /\ trips[t].customer = last.customer
          /\ trips[t].date = parse_month(last.month)
          /\ trips[t].invoiced_at # last.time
          /\ trips[t].invoiced_by # last.user

\* The trips a step changed, and those whose invoiced flag it changed.
C12_FrameOf(before, after, customer, ym, v, updated) ==
    /\ \A t \in DOMAIN before :
          after[t] # before[t]
              => /\ before[t].customer = customer
                 /\ before[t].date = ym
                 /\ before[t].invoiced # v
    /\ updated = Cardinality({t \in DOMAIN before :
                                  after[t].invoiced # before[t].invoiced})

\* C12: bulk_invoice(customer, year-month, v) changes only trips of that
\* customer dated in that month whose invoiced flag differs from v (trips
\* of another customer or month, and selected trips already at v, keep
\* every column), and 'updated' is the number of trips whose flag changed.
C12_BulkInvoiceFrame ==
    [][(now' = now /\ last'.op = "bulk_invoice")
          => /\ DOMAIN trips' = DOMAIN trips
             /\ C12_FrameOf(trips, trips', last'.customer,
                            parse_month(last'.month),
                            parse_inv(data_get(last'.invoiced, JTrue)),
                            last'.updated)]_vars

\* A bulk_invoice(true) updated one trip of the customer and month while
\* the other, invoiced earlier by someone else, kept its stamp.
C12_Witness ==
    /\ last.op = "bulk_invoice" /\ last.ok /\ last.updated = 1
    /\ last.invoiced = JTrue
    /\ \E t, o \in DOMAIN trips :
          /\ trips[t].customer = last.customer /\ trips[o].customer = last.customer
          /\ trips[t].date = parse_month(last.month)
          /\ trips[o].date = parse_month(last.month)
          /\ trips[t].invoiced_at = last.time /\ trips[t].invoiced_by = last.user
          /\ trips[o].invoiced
          /\ trips[o].invoiced_at # last.time /\ trips[o].invoiced_by # last.user

(***************************************************************************)
(* Pricing.                                                                *)
(***************************************************************************)
\* The trip data of the request served.
C13_Data == reqs["trip"].data

\* The customer of the request has a linked plan and that plan is active.
C13_PlanApplies ==
    /\ C13_Data.customer # None
    /\ C13_Data.customer \in DOMAIN customer_price_plans
    /\ price_plans[customer_price_plans[C13_Data.customer]].active

\* The plan linked to the customer of the request.
C13_LinkedPlan == price_plans[customer_price_plans[C13_Data.customer]]

\* t is in the night window [s, e], which wraps midnight when s > e.
C14_InWindow(t, s, e) ==
    /\ s # None /\ e # None
    /\ \/ (s <= e /\ s <= t /\ t <= e)
       \/ (s > e /\ (t >= s \/ t <= e))

\* The number of stops present in the data.
C15_Stops(data) ==
    Cardinality({n \in {1, 2} :
        IF n = 1
        THEN data.stop1_location # NoLocation \/ data.stop1_name # NoName
        ELSE data.stop2_location # NoLocation \/ data.stop2_name # NoName})

\* base_price + E + N + H + S for a plan and the data of a trip.
C13_Price(pp, data) ==
    LET pax == IF data.pax \in {Absent, 0} THEN 1 ELSE data.pax
        E == IF pax > pp.base_pax_included
             THEN (pax - pp.base_pax_included) * pp.extra_pax_price ELSE 0
        N == IF C14_InWindow(data.start_time, pp.night_start, pp.night_end)
             THEN pp.night_surcharge ELSE 0
        H == IF data.date \in holidays THEN pp.holiday_surcharge ELSE 0
        S == CASE C15_Stops(data) = 0 -> 0
               [] C15_Stops(data) = 1 -> pp.stop1_surcharge
               [] C15_Stops(data) = 2 -> pp.stop2_surcharge
    IN  pp.base_price + E + N + H + S

\* The plan {900, 7, 100, night 22:00-06:00 +200, holiday +300, 50, 90}.
C13_ExamplePlan == PricePlan(900, Time(22, 0), Time(6, 0), TRUE)

\* C13: pricing_for_trip returns base_price + E + N + H + S of the plan
\* that applies, for every plan and trip input; the example plan gives 1650
\* for pax 9 at 23:00 on a holiday with one stop, and 900 for pax 5 at
\* 12:00 on a working day without stops.
C13_PriceFormula ==
    (last.op = "pricing_for_trip" /\ C13_PlanApplies)
        => /\ last.price = C13_Price(C13_LinkedPlan, C13_Data)
           /\ (/\ C13_LinkedPlan = C13_ExamplePlan
               /\ C13_Data.pax = 9 /\ C13_Data.start_time = Time(23, 0)
               /\ C13_Data.date \in holidays /\ C15_Stops(C13_Data) = 1)
                  => last.price = 1650
           /\ (/\ C13_LinkedPlan = C13_ExamplePlan
               /\ C13_Data.pax = 5 /\ C13_Data.start_time = Time(12, 0)
               /\ C13_Data.date \notin holidays /\ C15_Stops(C13_Data) = 0)
                  => last.price = 900

\* The example plan priced a trip of 9 pax at 23:00 on a holiday with one
\* stop at 1650.
C13_Witness ==
    /\ last.op = "pricing_for_trip" /\ C13_PlanApplies
    /\ C13_LinkedPlan = C13_ExamplePlan
    /\ C13_Data.pax = 9 /\ C13_Data.start_time = Time(23, 0)
    /\ C13_Data.date \in holidays /\ C15_Stops(C13_Data) = 1
    /\ last.price = 1650

\* The plan whose night window pricing_for_trip tests.
C14_Plan == IF C13_PlanApplies THEN C13_LinkedPlan ELSE DefaultPlan

\* C14: the night surcharge is added iff both bounds are present and the
\* start time is in the window, wrapping or not, midnight included as a
\* bound or as the start time; with a bound absent it is never added.
C14_NightWindow ==
    (last.op = "pricing_for_trip")
        => /\ last.night <=> C14_InWindow(C13_Data.start_time, C14_Plan.night_start,
                                          C14_Plan.night_end)
           /\ (C14_Plan.night_start = None \/ C14_Plan.night_end = None)
                  => ~last.night
           /\ last.price - C13_Price([C14_Plan EXCEPT !.night_surcharge = 0], C13_Data)
                  = IF last.night THEN C14_Plan.night_surcharge ELSE 0

\* A trip starting at 00:00 got the surcharge of a window 22:00-00:00.
C14_Witness ==
    /\ last.op = "pricing_for_trip" /\ C13_PlanApplies
    /\ C13_LinkedPlan.night_start = Time(22, 0)
    /\ C13_LinkedPlan.night_end = Time(0, 0)
    /\ C13_Data.start_time = Time(0, 0)
    /\ last.night

\* The data of the request without its stops.
C15_NoStops ==
    [C13_Data EXCEPT !.stop1_location = NoLocation, !.stop1_name = NoName,
                     !.stop2_location = NoLocation, !.stop2_name = NoName]

\* C15: the stop surcharge in a price (of pricing_for_trip, or of a create
\* request without a price) is 0 without stops, stop1_surcharge with one
\* stop in either slot, stop2_surcharge with both; a stop is present by its
\* location reference or by its name; the two surcharges are never summed.
C15_StopSurcharge ==
    (/\ last.op \in {"pricing_for_trip", "create"} /\ last.ok
     /\ get(last.price_in) = None)
        => last.price - pricing_for_trip(C15_NoStops, price_plans,
                                         customer_price_plans, holidays)
              = CASE C15_Stops(C13_Data) = 0 -> 0
                  [] C15_Stops(C13_Data) = 1 -> C14_Plan.stop1_surcharge
                  [] C15_Stops(C13_Data) = 2 -> C14_Plan.stop2_surcharge

\* A create request with two stops, one by location and one by name, was
\* priced with stop2_surcharge alone.
C15_Witness ==
    /\ last.op = "create" /\ last.ok /\ last.price_in = Absent
    /\ C13_PlanApplies
    /\ C13_Data.stop1_location # NoLocation
    /\ C13_Data.stop2_location = NoLocation /\ C13_Data.stop2_name # NoName
    /\ trips[1].price = last.price
    /\ last.price - pricing_for_trip(C15_NoStops, price_plans,
                                     customer_price_plans, holidays)
          = C13_LinkedPlan.stop2_surcharge
    /\ C13_LinkedPlan.stop2_surcharge # 0

\* C16: the price pricing_for_trip returns is a non-negative integer for
\* every trip input and every PricePlan row the store accepts.
C16_PriceNonNegative ==
    (last.op = "pricing_for_trip") => (last.price \in Nat)

\* C17: pricing_for_trip uses the linked plan's values iff the trip has a
\* customer, the customer has a link and the linked plan is active; in
\* every other case it uses the defaults and returns 900.
C17_PlanResolution ==
    (last.op = "pricing_for_trip")
        => last.price = IF C13_PlanApplies
                        THEN C13_Price(C13_LinkedPlan, C13_Data)
                        ELSE 900

\* A customer linked to an inactive plan was priced 900 although the plan
\* would have given another price.
C17_Witness ==
    /\ last.op = "pricing_for_trip"
    /\ C13_Data.customer \in DOMAIN customer_price_plans
    /\ ~C13_LinkedPlan.active
    /\ C13_Price(C13_LinkedPlan, C13_Data) # 900
    /\ last.price = 900

\* C18: a create request without a price whose customer's only linked plan
\* is inactive is rejected with a validation failure on price, and no Trip
\* is persisted.
C18_InactivePlanCreateRejected ==
    (/\ last.op = "create" /\ C13_Data.pax # Absent
     /\ get(last.price_in) = None
     /\ C13_Data.customer \in DOMAIN customer_price_plans
     /\ ~C13_LinkedPlan.active)
        => (~last.ok /\ last.error = "price" /\ trips = <<>>)

\* C19: a create request is rejected for a missing price exactly when the
\* price is absent and no customer is selected or the customer has no
\* plan; a request with an explicit price passes, customer or not.
C19_PriceRequiredOnlyWithoutPlan ==
    (last.op = "create" /\ C13_Data.pax # Absent)
        => ((last.error = "price")
               <=> /\ get(last.price_in) = None
                   /\ \/ C13_Data.customer = None
                      \/ C13_Data.customer \notin DOMAIN customer_price_plans)

(***************************************************************************)
(* Flight matching.                                                        *)
(***************************************************************************)
\* The IATA code and the numeric tail of the queries that split.
C20_Split(query) ==
    CASE query = <<"D", "Y", "5", "4", "0">> -> <<<<"D", "Y">>, <<"5", "4", "0">>>>
      [] query = <<"d", "y", " ", "5", "4", "0", "a">> -> <<<<"D", "Y">>, <<"5", "4", "0">>>>
      [] query = <<"S", "K", "5", "4", "0">> -> <<<<"S", "K">>, <<"5", "4", "0">>>>
      [] query = <<"X", "X", "5", "4", "0">> -> <<<<"X", "X">>, <<"5", "4", "0">>>>
      [] OTHER -> <<>>

\* The digits of a string.
RECURSIVE C20_DigitsOf(_)
C20_DigitsOf(s) ==
    IF s = <<>> THEN <<>>
    ELSE (IF Head(s) \in Digits THEN <<Head(s)>> ELSE <<>>) \o C20_DigitsOf(Tail(s))

\* The leading letters of a string.
RECURSIVE C20_LeadingLetters(_)
C20_LeadingLetters(s) ==
    IF s = <<>> \/ Head(s) \notin UpperLetters THEN <<>>
    ELSE <<Head(s)>> \o C20_LeadingLetters(Tail(s))

\* (a): the flight field's digits are the tail and its leading letters are
\* the IATA code.
C20_FlightMatches(it, iata, tail) ==
    /\ C20_DigitsOf(_norm(it.flight)) = tail
    /\ C20_LeadingLetters(_norm(it.flight)) = iata

\* (b): the callsign's first three characters are an alias of the IATA code
\* (or the code itself) and the digits after them equal the tail or start
\* with it.
C20_CallsignMatches(it, iata, tail) ==
    LET cs == _norm(it.callsign)
        after == C20_DigitsOf(SubSeq(cs, 4, Len(cs)))
    IN  /\ Len(cs) >= 3
        /\ SubSeq(cs, 1, 3) \in AIRLINE_ALIASES(iata) \cup {iata}
        /\ \/ after = tail
           \/ (Len(after) > Len(tail) /\ SubSeq(after, 1, Len(tail)) = tail)

\* The record is in the list.
C20_In(it, list) == \E j \in 1 .. Len(list) : list[j] = it

C21_Canon(s) ==
    SelectSeq([i \in 1 .. Len(s) |-> upper(s[i])],
              LAMBDA ch : ch \in UpperLetters \cup Digits)

\* C21: filter_by_flight_number returns the same records for any two
\* queries that differ only in letter case or in characters outside
\* [A-Z0-9]; "DY540" and "DY-540" return the same records.
C21_QueryNormalised ==
    last.op = "filter_by_flight_number"
        => \A other \in FlightQueries :
              C21_Canon(other) = C21_Canon(reqs["flight"].query)
                 => filter_by_flight_number(reqs["flight"].items, other) = last.result

\* Stage 1: the digits of either field are the digits of the query.
C22_DigitsEqual(it, q) ==
    \/ C20_DigitsOf(it.flight) = C20_DigitsOf(q)
    \/ C20_DigitsOf(it.callsign) = C20_DigitsOf(q)

\* Stage 2: either normalised field begins with the query.
C22_Prefix(it, q) ==
    \E f \in {_norm(it.flight), _norm(it.callsign)} :
        Len(f) >= Len(q) /\ \A i \in 1 .. Len(q) : f[i] = q[i]

\* Stage 3: the query occurs in either normalised field.
C22_Substring(it, q) ==
    \E f \in {_norm(it.flight), _norm(it.callsign)} :
        \E d \in 0 .. Len(f) :
            d + Len(q) <= Len(f) /\ \A i \in 1 .. Len(q) : f[d + i] = q[i]

\* C22: for a query that reaches the primary match, the fallback stages run
\* only when the primary match set is empty, in the order digit equality,
\* prefix, substring; the result is the hit set of the first stage that has
\* a hit, never mixed with the hits of another stage.
C22_FallbackLadder ==
    (last.op = "filter_by_flight_number" /\ C20_Split(reqs["flight"].query) # <<>>)
        => LET items == reqs["flight"].items
               q == _norm(reqs["flight"].query)
               s1 == SelectSeq(items, LAMBDA it : C22_DigitsEqual(it, q))
               s2 == SelectSeq(items, LAMBDA it : C22_Prefix(it, q))
               s3 == SelectSeq(items, LAMBDA it : C22_Substring(it, q))
           IN  last.result = IF last.primary # <<>> THEN last.primary
                             ELSE IF s1 # <<>> THEN s1
                             ELSE IF s2 # <<>> THEN s2
                             ELSE s3

\* "XX540" against flight "XX5401" and flight "AXX5401", with no record
\* whose digits are 540: the prefix hit is returned alone, the record that
\* only contains the query is not.
C22_Witness ==
    /\ last.op = "filter_by_flight_number"
    /\ reqs["flight"].query = <<"X", "X", "5", "4", "0">>
    /\ last.primary = <<>>
    /\ \E i, j \in 1 .. Len(reqs["flight"].items) :
          /\ reqs["flight"].items[i].flight = <<"X", "X", "5", "4", "0", "1">>
          /\ reqs["flight"].items[j].flight = <<"A", "X", "X", "5", "4", "0", "1">>
    /\ last.result = <<Flight(<<"X", "X", "5", "4", "0", "1">>, <<>>)>>

\* ^[A-Z]{3}[0-9A-Z]{1,5}$: three letters and one to five alphanumerics.
C23_CallsignShaped(q) ==
    /\ Len(q) >= 4 /\ Len(q) <= 8
    /\ \A i \in 1 .. Len(q) :
          q[i] \in (IF i <= 3 THEN UpperLetters ELSE UpperLetters \cup Digits)

\* C23: a callsign-shaped query returns exactly the records whose
\* normalised callsign is the query; a query that is neither callsign-shaped
\* nor splittable returns exactly the records whose normalised flight field
\* is the query; no query is both callsign-shaped and splittable, and an
\* empty result of either branch is returned as it is.
C23_EarlyReturns ==
    last.op = "filter_by_flight_number"
        => LET items == reqs["flight"].items
               q == _norm(reqs["flight"].query)
               splits == C20_Split(reqs["flight"].query) # <<>>
           IN  /\ ~(C23_CallsignShaped(q) /\ splits)
               /\ C23_CallsignShaped(q)
                     => last.result = SelectSeq(items, LAMBDA it : _norm(it.callsign) = q)
               /\ (~C23_CallsignShaped(q) /\ ~splits)
                     => last.result = SelectSeq(items, LAMBDA it : _norm(it.flight) = q)

\* "NOZ 540A" against flight "DY 540" alone: no callsign is NOZ540A, so the
\* result is empty although the digits of the record are those of the query.
C23_Witness ==
    /\ last.op = "filter_by_flight_number"
    /\ reqs["flight"].query = <<"N", "O", "Z", " ", "5", "4", "0", "A">>
    /\ reqs["flight"].items = <<Flight(<<"D", "Y", " ", "5", "4", "0">>, <<>>)>>
    /\ last.result = <<>>

(***************************************************************************)
(* Avinor ETA: which of several matching entries is picked.                *)
(***************************************************************************)
\* The times of the matching entries.
C24_Times == {reqs["eta"].hits[i] : i \in 1 .. Len(reqs["eta"].hits)} \ {None}

\* C24: of several matching entries the one picked has the earliest time at
\* or after now if there is one; if every time is in the past, the latest
\* past time; an entry without a time only when no entry has a time.
C24_PickedEntry ==
    (last.op = "eta_avinor" /\ last.status = 200)
        => LET future == {t \in C24_Times : t >= now}
           IN  IF future # {}
               THEN last.eta \in future /\ \A t \in future : last.eta <= t
               ELSE IF C24_Times # {}
               THEN last.eta \in C24_Times /\ \A t \in C24_Times : t <= last.eta
               ELSE last.eta = None

(***************************************************************************)
(* Upstream failures: the candidate fallback of airport_arrivals, and      *)
(* failures outside it.                                                    *)
(***************************************************************************)
\* The call failed: an exception, a status of 400 or more, or no JSON.
C25_Failed(r) == r.exc # "" \/ r.status >= 400 \/ r.body = "invalid"

\* C25: airport_arrivals requests p1, p2, p3 in this order, a candidate
\* only after every earlier one failed; the first candidate that answers
\* below 400 with JSON determines the result and ends the requests; when
\* all three fail the failure of the last candidate is raised, never an
\* empty list returned.
C25_CandidateFallback ==
    (last.op = "airport_arrivals" /\ reqs["board"].token
         /\ reqs["board"].airport # "NORWAY")
        => LET outcomes == reqs["board"].outcomes
               res == last.res
               good == {i \in 1 .. 3 : ~C25_Failed(outcomes[i])}
           IN  /\ \E k \in 1 .. 3 : res.requested = [i \in 1 .. k |-> i]
               /\ \A i \in 1 .. (Len(res.requested) - 1) : C25_Failed(outcomes[i])
               /\ good # {}
                     => /\ res.raised = NoExc
                        /\ res.from \in good /\ \A i \in good : res.from <= i
                        /\ Len(res.requested) = res.from
                        /\ res.returned =
                              IF reqs["board"].return_raw THEN "raw"
                              ELSE IF outcomes[res.from].body = "list" THEN "list"
                              ELSE "empty"
                        /\ res.out = IF res.returned = "list"
                                     THEN outcomes[res.from].items ELSE <<>>
               /\ good = {}
                     => /\ Len(res.requested) = 3
                        /\ res.returned = ""
                        /\ res.raised # NoExc /\ res.raised.at = 3
                        /\ res.raised.type =
                              IF outcomes[3].exc # "" THEN outcomes[3].exc
                              ELSE IF outcomes[3].status >= 400 THEN "HTTPError"
                              ELSE "JSONDecodeError"

\* p1 answers 404, p2 answers 200 without JSON, p3 times out: all three are
\* requested and the timeout of p3 is raised.
C25_Witness ==
    /\ last.op = "airport_arrivals"
    /\ reqs["board"].token /\ reqs["board"].airport = "SVG"
    /\ reqs["board"].outcomes[1].status = 404
    /\ reqs["board"].outcomes[2].body = "invalid"
    /\ reqs["board"].outcomes[3].exc = "Timeout"
    /\ last.res.requested = <<1, 2, 3>>
    /\ last.res.raised = Exc("Timeout", 3)
    /\ last.status = 502

\* C26: outside the candidate fallback a failed upstream call is reported
\* to the caller as a failure, never turned into an empty result; when
\* every call of live_positions_multi fails the caller receives a failure.
C26_FailureReported ==
    last.op \in {"live_positions", "live_positions_multi"}
        => ((\E i \in 1 .. Len(reqs["live"].outcomes) : C25_Failed(reqs["live"].outcomes[i]))
               => last.res.raised # NoExc)

(***************************************************************************)
(* The holiday import: Sundays of the year.                                *)
(***************************************************************************)
\* The Sundays of a year, from the weekday of each of its days.
C27_Sundays(year) ==
    {<<year, n>> : n \in {k \in 1 .. days_in_year(year) :
                             (jan1_weekday(year) + (k - 1)) % 7 = 6}}

\* C27: after the import for year Y every Sunday of Y has a Holiday, the
\* Sunday step added no date outside the Sundays of Y, no date has two
\* Holidays, and every Holiday the Sunday step found is unchanged.
C27_SundaysMarked ==
    last.op = "sundays"
        => LET year == reqs["import"].year
           IN  /\ \A d \in C27_Sundays(year) : \E h \in holidays : h.date = d
               /\ \A h \in holidays :
                     h \in last.before \/ h.date \in C27_Sundays(year)
               /\ \A h1, h2 \in holidays : h1.date = h2.date => h1 = h2
               /\ \A h \in last.before : h \in holidays

\* The import for 2025 after the API step wrote Easter Sunday and an earlier
\* run left a Sunday: 52 Sundays have a Holiday, Easter Sunday keeps its
\* name.
C27_Witness ==
    /\ last.op = "sundays"
    /\ reqs["import"].year = 2025
    /\ Holiday(<<2025, 110>>, "1. paskedag", "NO") \in last.before
    /\ Holiday(<<2025, 117>>, "Sondag", "SE") \in last.before
    /\ Holiday(<<2025, 110>>, "1. paskedag", "NO") \in holidays
    /\ Cardinality({h \in holidays : h.date \in C27_Sundays(2025)}) = 52
    /\ Holiday(<<2025, 5>>, "Sondag", "NO") \in holidays

(***************************************************************************)
(* Locations named by concurrent requests.                                 *)
(***************************************************************************)
\* The committed Location rows with the name.
C28_Named(name) == {row \in locations : row.name = name}

\* Both requests are over.
C28_BothDone == \A r \in LocRequests : reqs[r].pc = "done"

\* The trips the requests persisted reference the one Location of the name,
\* and where that Location existed before the requests it is that one.
C28_TripsReferenceIt ==
    /\ \A r \in LocRequests :
          (reqs[r].ok /\ reqs[r].op = "create")
             => \E row \in C28_Named("Sola") : trips[reqs[r].trip].origin = row.id
    /\ (\E r \in LocRequests : reqs[r].ok /\ reqs[r].op = "update")
          => \E row \in C28_Named("Sola") : trips[1].origin = row.id
    /\ Location(2, "Sola") \in locations => C28_Named("Sola") = {Location(2, "Sola")}

\* C28 as stated: after two concurrent create/update requests naming the
\* same location, exactly one Location has the trimmed name, every trip
\* they persisted references it, and an existing Location is reused.
C28_ExactlyOneLocation ==
    C28_BothDone
        => /\ Cardinality(C28_Named("Sola")) = 1
           /\ C28_TripsReferenceIt

\* C28: at no time do two Locations have the same name; after two
\* concurrent create/update requests naming the same location exactly one
\* Location has the trimmed name if it existed before or one of the
\* requests committed, and none otherwise; every trip they persisted
\* references it, and an existing Location is reused.
C28_AtMostOneLocation ==
    /\ \A row1, row2 \in locations : row1.name = row2.name => row1 = row2
    /\ C28_BothDone
          => /\ Cardinality(C28_Named("Sola")) =
                   IF Location(2, "Sola") \in locations \/ \E r \in LocRequests : reqs[r].ok
                   THEN 1 ELSE 0
             /\ C28_TripsReferenceIt

\* Both requests looked "Sola" up before either inserted it, one inserted
\* and committed, the other's insert failed on the unique index and it
\* used the committed row: one Location, two trips persisted with it.
C28_Witness ==
    /\ C28_BothDone
    /\ reqs["a"].ok /\ reqs["b"].ok
    /\ reqs["a"].op = "create" /\ reqs["b"].op = "create"
    /\ reqs["a"].name = "Sola" /\ reqs["b"].name = " Sola "
    /\ reqs["a"].inserted /\ ~reqs["b"].inserted
    /\ locations = {Location(1, "Forus"), Location(2, "Sola")}
    /\ trips[reqs["a"].trip].origin = 2 /\ trips[reqs["b"].trip].origin = 2
    /\ reqs["a"].trip # reqs["b"].trip

(***************************************************************************)
(* A trip update against concurrent writers of the same row.               *)
(***************************************************************************)
\* C29: once an update without driver_id and a concurrent assign_driver
\* (or unassign_driver) on the same trip have both completed, status is
\* 'assigned' iff an Assignment exists; and once the update and a
\* set_invoiced have both completed, the trip carries what set_invoiced
\* wrote.
C29_UpdateKeepsConcurrentWrites ==
    reqs["update"].pc = "done"
        => /\ (reqs["assign"].pc = "done" /\ reqs["assign"].ok
                  /\ reqs["unassign"].pc = "idle")
                 => StatusAgrees(1)
           /\ (reqs["unassign"].pc = "done" /\ reqs["assign"].pc = "idle")
                 => StatusAgrees(1)
           /\ (last.op = "set_invoiced" /\ last.ok)
                 => /\ trips[1].invoiced = TRUE
                    /\ trips[1].invoiced_by = last.user
                    /\ trips[1].invoiced_at = last.time

(***************************************************************************)
(* When the price is computed.                                             *)
(***************************************************************************)
\* C30: a price supplied on create, 0 included, is stored as it is, and an
\* update that supplies no price leaves the stored price what it was,
\* whatever else it changes.
C30_PriceOnlyComputedOnCreate ==
    [][/\ (reqs["trip"].pc = "idle" /\ last'.op = "create" /\ last'.ok
              /\ last'.price_in \notin {Absent, None})
             => trips'[1].price = last'.price_in
       /\ (reqs["trip"].pc = "done" /\ last'.op = "update" /\ last'.price_in = Absent)
             => trips'[1].price = trips[1].price]_vars

\* A trip of customer 1 with 5 pax was created with price 0 under a plan
\* whose base price is 900, then updated to 9 pax: the price is still 0.
C30_Witness ==
    /\ last.op = "update" /\ last.ok
    /\ last.price_in = Absent
    /\ 1 \in DOMAIN customer_price_plans
    /\ price_plans[1].active /\ price_plans[1].base_price = 900
    /\ reqs["trip"].data.pax = 5
    /\ trips[1].pax = 9
    /\ trips[1].price = 0

====
